---- MODULE Spec2Model ----
(***************************************************************************)
(* Recursive meta-prompting monad (unit / join / bind and its law          *)
(* verification) together with the quality assessment and improvement      *)
(* integration it calls.                                                   *)
(*                                                                         *)
(* Numbers.  Python floats are modelled in fixed point: a sub-score is an  *)
(* integer number of thousandths (0.5 is 500), a weight an integer number  *)
(* of tenths, and an overall quality value an integer number of            *)
(* ten-thousandths (0.80 is 8000, the tolerance 0.01 is 100).              *)
(*                                                                         *)
(* Text.  A template is a sequence of segments (literal pieces of text or  *)
(* the placeholder "{task}"); rendering substitutes the placeholder.  A    *)
(* completion output is described by the features the heuristics read.     *)
(***************************************************************************)
EXTENDS Integers, Sequences, FiniteSets, TLC

VARIABLES
    store,   \* the MonadPrompt objects built so far, by object identity
    lists,   \* the history list objects, by identity: lists[id] is a sequence of Prompts
    origin,  \* origin[i]: the operation that returned store[i], and its arguments
    last     \* what the last operation did: its calls to complete, its outcome

vars == <<store, lists, origin, last>>

----------------------------------------------------------------------------
(* Bounds of the model *)

MaxStore == 3       \* MonadPrompt objects kept in a run of the chain operations
MaxLawStore == 1    \* MonadPrompt objects kept in a run of the law verification
MaxScript == 8      \* responses of the completion collaborator within one operation
MaxLen == 2         \* entries of a context store drawn by a test
MaxCtx == 2         \* context stores kept in a run
MaxObs == 3         \* observations kept in a run
MaxPipeline == 3    \* prompts of a pipeline of transformations

----------------------------------------------------------------------------
(* Small helpers *)

Min2(a, b) == IF a <= b THEN a ELSE b

Max2(a, b) == IF a >= b THEN a ELSE b

Abs(x) == IF x < 0 THEN -x ELSE x

\* {**old, **new}: the keys of new override those of old
DictUpdate(old, new) == new @@ old

\* d.get(key, default)
DictGet(d, key, default) == IF key \in DOMAIN d THEN d[key] ELSE default

----------------------------------------------------------------------------
(* Text: segments, templates, rendering, keywords *)

Placeholder == "{task}"

StructPre == "Let's approach this systematically:"
StructPost == "Provide your solution with clear structure: 1. Analysis 2. Approach 3. Solution 4. Verification"
ReasonPre == "Think step-by-step about this problem:"
ReasonPost == "Show your reasoning process: - What is the core problem? - What approach will you use? - Why is this approach optimal? - What is the final solution?"
AltPre == "Consider alternative approaches to this problem:"
AltPost == "Explore multiple solution strategies: 1. Approach A: [describe] 2. Approach B: [describe] 3. Best approach: [select and justify] 4. Final solution: [implement]"

\* Prompt.render(): template.format(**variables)
render(prompt) ==
    [i \in DOMAIN prompt.template |->
        IF prompt.template[i] = Placeholder THEN prompt.variables.task
        ELSE prompt.template[i]]

\* The words of one segment that extract_keywords keeps: lower-cased, longer
\* than three letters, not a stop word.
SegmentKeywords(seg) ==
    CASE seg = "Solve: " -> {"solve"}
      [] seg = "Step-by-step solution for: " -> {"solution", "step"}
      [] seg = "find the maximum" -> {"find", "maximum"}
      [] seg = "Enhanced: " -> {"enhanced"}
      [] seg = "Refine: " -> {"refine"}
      [] seg = StructPre -> {"approach", "systematically", "this"}
      [] seg = StructPost -> {"analysis", "approach", "clear", "provide", "solution",
                              "structure", "verification", "with", "your"}
      [] seg = ReasonPre -> {"about", "problem", "step", "think", "this"}
      [] seg = ReasonPost -> {"approach", "core", "final", "optimal", "problem", "process",
                              "reasoning", "show", "solution", "this", "what", "will", "your"}
      [] seg = AltPre -> {"alternative", "approaches", "consider", "problem", "this"}
      [] seg = AltPost -> {"approach", "best", "describe", "explore", "final", "implement",
                           "justify", "multiple", "select", "solution", "strategies"}
      [] OTHER -> {}

\* extract_keywords(text): the set of unique keywords of the text
extract_keywords(text) == UNION {SegmentKeywords(text[i]) : i \in DOMAIN text}

----------------------------------------------------------------------------
(* Completion outputs, by the features the heuristics read *)

\* ""
OutEmpty ==
    [name |-> "Empty", len |-> 0, striplen |-> 0, error_kw |-> FALSE,
     paragraphs |-> FALSE, bullets |-> FALSE, avg_sentence_len |-> 0,
     explanatory |-> FALSE, example |-> FALSE, edge_case |-> FALSE,
     complexity |-> FALSE, optimize |-> FALSE, inefficient |-> FALSE,
     contains |-> {}]

\* "Basic solution (call 1)": "so" occurs in "solution"
OutBasic ==
    [name |-> "Basic", len |-> 23, striplen |-> 23, error_kw |-> FALSE,
     paragraphs |-> FALSE, bullets |-> FALSE, avg_sentence_len |-> 4,
     explanatory |-> TRUE, example |-> FALSE, edge_case |-> FALSE,
     complexity |-> FALSE, optimize |-> FALSE, inefficient |-> FALSE,
     contains |-> {"solution"}]

\* A structured answer of 211 characters with paragraphs, a numbered list,
\* "because", "e.g.", "edge case" and "efficient".
OutRich ==
    [name |-> "Rich", len |-> 211, striplen |-> 211, error_kw |-> FALSE,
     paragraphs |-> TRUE, bullets |-> TRUE, avg_sentence_len |-> 4,
     explanatory |-> TRUE, example |-> TRUE, edge_case |-> TRUE,
     complexity |-> TRUE, optimize |-> FALSE, inefficient |-> FALSE,
     contains |-> {"analysis", "approach", "best", "find", "maximum", "solution",
                   "solve", "this"}]

\* "error" followed by 2495 spaces: long, almost empty, with an error keyword
OutPadded ==
    [name |-> "Padded", len |-> 2500, striplen |-> 5, error_kw |-> TRUE,
     paragraphs |-> FALSE, bullets |-> FALSE, avg_sentence_len |-> 1,
     explanatory |-> FALSE, example |-> FALSE, edge_case |-> FALSE,
     complexity |-> FALSE, optimize |-> FALSE, inefficient |-> FALSE,
     contains |-> {}]

Outputs == {OutBasic, OutRich}

----------------------------------------------------------------------------
(* quality.py: assessment *)

\* Faulty variant of _assess_correctness: no base score
_assess_correctness_no_base(output, prompt) ==
    LET score == (IF output.striplen > 10 THEN 200 ELSE 0)
                 + (IF output.len > 50 THEN 100 ELSE 0)
                 + (IF output.len < 2000 THEN 100 ELSE 0)
                 + (IF ~output.error_kw THEN 100 ELSE 0)
    IN  Min2(score, 1000)

_assess_correctness(output, prompt) ==
    LET score == 500
                 + (IF output.striplen > 10 THEN 200 ELSE 0)
                 + (IF output.len > 50 THEN 100 ELSE 0)
                 + (IF output.len < 2000 THEN 100 ELSE 0)
                 + (IF ~output.error_kw THEN 100 ELSE 0)
    IN  Min2(score, 1000)

_assess_clarity(output) ==
    LET score == 500
                 + (IF output.paragraphs THEN 150 ELSE 0)
                 + (IF output.bullets THEN 150 ELSE 0)
                 + (IF 10 <= output.avg_sentence_len /\ output.avg_sentence_len <= 30
                       THEN 100 ELSE 0)
                 + (IF output.explanatory THEN 100 ELSE 0)
    IN  Min2(score, 1000)

\* 0.2 * keyword_coverage is rounded down to a whole thousandth.
_assess_completeness(output, prompt) ==
    LET prompt_keywords == extract_keywords(render(prompt))
        covered == Cardinality({kw \in prompt_keywords : kw \in output.contains})
        n == IF Cardinality(prompt_keywords) >= 1 THEN Cardinality(prompt_keywords) ELSE 1
        score == 600
                 + ((200 * covered) \div n)
                 + (IF output.example THEN 100 ELSE 0)
                 + (IF output.edge_case THEN 100 ELSE 0)
    IN  Min2(score, 1000)

_assess_efficiency(output) ==
    LET score == 700
                 + (IF output.complexity THEN 150 ELSE 0)
                 + (IF output.optimize THEN 100 ELSE 0)
                 + (IF ~output.inefficient THEN 50 ELSE 0)
    IN  Min2(score, 1000)

QualityScore(value, components) == [value |-> value, components |-> components]

\* Faulty variant of assess_quality: the four sub-scores weigh the same
assess_quality_unweighted(output, prompt) ==
    LET components == [correctness |-> _assess_correctness(output, prompt),
                       clarity |-> _assess_clarity(output),
                       completeness |-> _assess_completeness(output, prompt),
                       efficiency |-> _assess_efficiency(output)]
        overall == ((components.correctness + components.clarity
                     + components.completeness + components.efficiency) * 10) \div 4
    IN  QualityScore(overall, components)

assess_quality(output, prompt) ==
    LET components == [correctness |-> _assess_correctness(output, prompt),
                       clarity |-> _assess_clarity(output),
                       completeness |-> _assess_completeness(output, prompt),
                       efficiency |-> _assess_efficiency(output)]
        weights == [correctness |-> 4, clarity |-> 3, completeness |-> 2, efficiency |-> 1]
        overall == components.correctness * weights.correctness
                   + components.clarity * weights.clarity
                   + components.completeness * weights.completeness
                   + components.efficiency * weights.efficiency
    IN  QualityScore(overall, components)

\* QualityScore.tensor_product: the minimum of the two values
tensor_product(q1, q2) == QualityScore(Min2(q1.value, q2.value), [k \in {} |-> 0])

----------------------------------------------------------------------------
(* quality.py: improvement extraction and integration *)

Prompt(template, variables, context, meta_level) ==
    [template |-> template, variables |-> variables, context |-> context,
     meta_level |-> meta_level]

EmptyDict == [k \in {} |-> TRUE]

\* Faulty variant of extract_improvement: the strategy of the first matched
\* rule is kept
extract_improvement_first_wins(monad_prompt, history) ==
    LET quality_rule ==
            IF monad_prompt.quality.value < 8000
            THEN DictUpdate(EmptyDict, [needs_clarity |-> TRUE, strategy |-> "add_structure"])
            ELSE EmptyDict
        meta_rule ==
            IF monad_prompt.meta_level = 0
            THEN DictUpdate([add_meta_reflection |-> TRUE, strategy |-> "add_reasoning_steps"],
                            quality_rule)
            ELSE quality_rule
        prev_quality == DictGet(history[Len(history)].context, "quality", 5000)
        current_quality == monad_prompt.quality.value
    IN  IF Len(history) > 0 /\ current_quality <= prev_quality
        THEN DictUpdate([quality_stagnant |-> TRUE, strategy |-> "try_different_approach"],
                        meta_rule)
        ELSE meta_rule

\* history is the content of monad_prompt.history
extract_improvement(monad_prompt, history) ==
    LET quality_rule ==
            IF monad_prompt.quality.value < 8000
            THEN DictUpdate(EmptyDict, [needs_clarity |-> TRUE, strategy |-> "add_structure"])
            ELSE EmptyDict
        meta_rule ==
            IF monad_prompt.meta_level = 0
            THEN DictUpdate(quality_rule,
                            [add_meta_reflection |-> TRUE, strategy |-> "add_reasoning_steps"])
            ELSE quality_rule
        prev_quality == DictGet(history[Len(history)].context, "quality", 5000)
        current_quality == monad_prompt.quality.value
    IN  IF Len(history) > 0 /\ current_quality <= prev_quality
        THEN DictUpdate(meta_rule,
                        [quality_stagnant |-> TRUE, strategy |-> "try_different_approach"])
        ELSE meta_rule

\* Faulty variant of integrate_improvement: an unrecognised strategy gets the
\* structure scaffold, and the meta level is kept
integrate_improvement_always_scaffolds(prompt, improvement) ==
    LET strategy == DictGet(improvement, "strategy", "")
        enhanced_template ==
            CASE strategy = "add_reasoning_steps" ->
                    <<ReasonPre>> \o prompt.template \o <<ReasonPost>>
              [] strategy = "try_different_approach" ->
                    <<AltPre>> \o prompt.template \o <<AltPost>>
              [] OTHER -> <<StructPre>> \o prompt.template \o <<StructPost>>
    IN  Prompt(enhanced_template,
               prompt.variables,
               DictUpdate(prompt.context,
                          [improved |-> TRUE, improvement_strategy |-> strategy]),
               prompt.meta_level)

\* Faulty variant of integrate_improvement: the meta level of the prompt is
\* kept
integrate_improvement_keeps_level(prompt, improvement) ==
    LET strategy == DictGet(improvement, "strategy", "")
        enhanced_template ==
            CASE strategy = "add_structure" ->
                    <<StructPre>> \o prompt.template \o <<StructPost>>
              [] strategy = "add_reasoning_steps" ->
                    <<ReasonPre>> \o prompt.template \o <<ReasonPost>>
              [] strategy = "try_different_approach" ->
                    <<AltPre>> \o prompt.template \o <<AltPost>>
              [] OTHER -> prompt.template
    IN  Prompt(enhanced_template,
               prompt.variables,
               DictUpdate(prompt.context,
                          [improved |-> TRUE, improvement_strategy |-> strategy]),
               prompt.meta_level)

integrate_improvement(prompt, improvement) ==
    LET strategy == DictGet(improvement, "strategy", "")
        enhanced_template ==
            CASE strategy = "add_structure" ->
                    <<StructPre>> \o prompt.template \o <<StructPost>>
              [] strategy = "add_reasoning_steps" ->
                    <<ReasonPre>> \o prompt.template \o <<ReasonPost>>
              [] strategy = "try_different_approach" ->
                    <<AltPre>> \o prompt.template \o <<AltPost>>
              [] OTHER -> prompt.template
    IN  Prompt(enhanced_template,
               prompt.variables,
               DictUpdate(prompt.context,
                          [improved |-> TRUE, improvement_strategy |-> strategy]),
               prompt.meta_level + 1)

----------------------------------------------------------------------------
(* The completion collaborator and the run of one operation                *)
(*                                                                         *)
(* An operation runs against a machine: the responses the collaborator     *)
(* will give to its calls (rs), the calls made so far, each with its text   *)
(* and its response (calls), the values f returned inside bind (applied),  *)
(* the values join has been handed (joins), the list objects (lists), the  *)
(* error raised and not caught (raised), and whether the operation asked   *)
(* for a response beyond those supplied (starved).                         *)

NoError == "none"

Errors == {"TimeoutError"}

Return(output) == [kind |-> "return", output |-> output]

Raise(error) == [kind |-> "raise", error |-> error]

Responses == {Return(o) : o \in Outputs} \cup {Raise(e) : e \in Errors}

Machine(rs, ls) ==
    [rs |-> rs, calls |-> <<>>, applied |-> <<>>, joins |-> <<>>, lists |-> ls,
     raised |-> NoError, starved |-> FALSE]

\* The operation cannot go on: an exception is propagating
Halted(m) == m.raised # NoError \/ m.starved

NoValue == [none |-> TRUE]

Result(m, v) == [m |-> m, v |-> v]

\* llm_client.complete(text): returns an output or raises
complete(m, text) ==
    IF m.rs = <<>>
    THEN Result([m EXCEPT !.starved = TRUE], NoValue)
    ELSE LET r == Head(m.rs)
             called == [m EXCEPT !.rs = Tail(@),
                                 !.calls = Append(@, [text |-> text, response |-> r])]
         IN  IF r.kind = "raise"
             THEN Result([called EXCEPT !.raised = r.error], NoValue)
             ELSE Result(called, r.output)

\* x = ...; then the statements after it, which read x: the call behind x is
\* evaluated once
With(x, Rest(_)) == CHOOSE out \in {Rest(v) : v \in {x}} : TRUE

\* A new list object holding contents
NewList(m, contents) ==
    [m |-> [m EXCEPT !.lists = Append(@, contents)], id |-> Len(m.lists) + 1]

\* Faulty variant of ListConcat: history.append(item), then the same object
ListConcat_in_place(m, history, item) ==
    [m |-> [m EXCEPT !.lists[history] = Append(@, item)], id |-> history]

\* Faulty variant of ListConcat: [item] + history, newest first
ListConcat_prepend(m, history, item) == NewList(m, <<item>> \o m.lists[history])

\* history + [item]: a new list object, the operand is left alone
ListConcat(m, history, item) == NewList(m, Append(m.lists[history], item))

----------------------------------------------------------------------------
(* monad.py *)

MonadPrompt(prompt, quality, meta_level, history) ==
    [prompt |-> prompt, quality |-> quality, meta_level |-> meta_level,
     history |-> history]

\* Faulty variant of unit: a second completion call for the assessment
unit_calls_twice(m, prompt) ==
    With(complete(m, render(prompt)), LAMBDA first :
    IF Halted(first.m) THEN Result(first.m, NoValue)
    ELSE
    With(complete(first.m, render(prompt)), LAMBDA output :
    IF Halted(output.m) THEN Result(output.m, NoValue)
    ELSE
    With(assess_quality(output.v, prompt), LAMBDA quality :
    With(NewList(output.m, <<>>), LAMBDA history :
    Result(history.m, MonadPrompt(prompt, quality, 0, history.id))))))

unit(m, prompt) ==
    With(complete(m, render(prompt)), LAMBDA output :
    IF Halted(output.m) THEN Result(output.m, NoValue)
    ELSE
    With(assess_quality(output.v, prompt), LAMBDA quality :
    With(NewList(output.m, <<>>), LAMBDA history :
    Result(history.m, MonadPrompt(prompt, quality, 0, history.id)))))

\* Faulty variant of join: the quality of nested is kept, not assessed anew
join_keeps_quality(m, nested) ==
    With([m EXCEPT !.joins = Append(@, nested)], LAMBDA entered :
    With(extract_improvement(nested, m.lists[nested.history]), LAMBDA improvement :
    With(integrate_improvement(nested.prompt, improvement), LAMBDA enhanced_prompt :
    With(complete(entered, render(enhanced_prompt)), LAMBDA new_output :
    IF Halted(new_output.m) THEN Result(new_output.m, NoValue)
    ELSE
    Result(new_output.m,
           MonadPrompt(enhanced_prompt, nested.quality, nested.meta_level,
                       nested.history))))))

\* Faulty variant of join: a completion call that raises is tried once more
join_retries(m, nested) ==
    With([m EXCEPT !.joins = Append(@, nested)], LAMBDA entered :
    With(extract_improvement(nested, m.lists[nested.history]), LAMBDA improvement :
    With(integrate_improvement(nested.prompt, improvement), LAMBDA enhanced_prompt :
    With(complete(entered, render(enhanced_prompt)), LAMBDA first :
    With(IF first.m.raised # NoError
         THEN complete([first.m EXCEPT !.raised = NoError], render(enhanced_prompt))
         ELSE first, LAMBDA new_output :
    IF Halted(new_output.m) THEN Result(new_output.m, NoValue)
    ELSE
    With(assess_quality(new_output.v, enhanced_prompt), LAMBDA new_quality :
    Result(new_output.m,
           MonadPrompt(enhanced_prompt, new_quality, nested.meta_level,
                       nested.history))))))))

join(m, nested) ==
    With([m EXCEPT !.joins = Append(@, nested)], LAMBDA entered :
    With(extract_improvement(nested, m.lists[nested.history]), LAMBDA improvement :
    With(integrate_improvement(nested.prompt, improvement), LAMBDA enhanced_prompt :
    With(complete(entered, render(enhanced_prompt)), LAMBDA new_output :
    IF Halted(new_output.m) THEN Result(new_output.m, NoValue)
    ELSE
    With(assess_quality(new_output.v, enhanced_prompt), LAMBDA new_quality :
    Result(new_output.m,
           MonadPrompt(enhanced_prompt, new_quality, nested.meta_level,
                       nested.history)))))))

\* A monadic function Prompt -> MonadPrompt: unit itself, unit applied to a
\* rewritten prompt (the functions of the test suite), a Kleisli composite,
\* or a function that constructs the MonadPrompt directly.
UnitFn == [kind |-> "unit"]

RewriteFn(name) == [kind |-> "rewrite", name |-> name]

kleisli_compose(f, g) == [kind |-> "kleisli", f |-> f, g |-> g]

\* lambda p: MonadPrompt(p, QualityScore(0.8), 1), without a completion call
WrapFn == [kind |-> "wrap"]

MonadicFns == {RewriteFn("Enhanced"), RewriteFn("Refine")}

Rewrite(name, p) ==
    CASE name = "Enhanced" ->
            Prompt(<<"Enhanced: ">> \o p.template, p.variables,
                   DictUpdate(p.context, [enhanced |-> TRUE]), p.meta_level)
      [] name = "Refine" ->
            Prompt(<<"Refine: ">> \o p.template, p.variables,
                   DictUpdate(p.context, [refined |-> TRUE]), p.meta_level)

\* Faulty variant of Nested: the meta level of mb is counted up, not that of ma
Nested_counts_mb(ma, mb, history) ==
    MonadPrompt(mb.prompt, tensor_product(ma.quality, mb.quality),
                mb.meta_level + 1, history)

\* Faulty variant of Nested: the two qualities are averaged
Nested_averages(ma, mb, history) ==
    MonadPrompt(mb.prompt,
                QualityScore((ma.quality.value + mb.quality.value) \div 2,
                             [k \in {} |-> 0]),
                ma.meta_level + 1, history)

\* Faulty variant of Nested: the meta level of ma is kept
Nested_keeps_level(ma, mb, history) ==
    MonadPrompt(mb.prompt, tensor_product(ma.quality, mb.quality),
                ma.meta_level, history)

\* The nested value bind builds from ma and mb = f(ma.prompt)
Nested(ma, mb, history) ==
    MonadPrompt(mb.prompt, tensor_product(ma.quality, mb.quality),
                ma.meta_level + 1, history)

RECURSIVE Apply(_, _, _), bind(_, _, _)

\* f(p)
Apply(m, f, p) ==
    CASE f.kind = "unit" -> unit(m, p)
      [] f.kind = "rewrite" -> unit(m, Rewrite(f.name, p))
      [] f.kind = "wrap" ->
            With(NewList(m, <<>>), LAMBDA history :
            Result(history.m,
                   MonadPrompt(p, QualityScore(8000, [k \in {} |-> 0]), 1, history.id)))
      [] f.kind = "kleisli" ->
            With(Apply(m, f.f, p), LAMBDA fa :
            IF Halted(fa.m) THEN Result(fa.m, NoValue)
            ELSE bind(fa.m, fa.v, f.g))

\* Faulty variant of bind: a completion call on the prompt of ma before f
bind_calls_first(m, ma, f) ==
    With(complete(m, render(ma.prompt)), LAMBDA probe :
    IF Halted(probe.m) THEN Result(probe.m, NoValue)
    ELSE
    With(Apply(probe.m, f, ma.prompt), LAMBDA mb :
    IF Halted(mb.m) THEN Result(mb.m, NoValue)
    ELSE
    With([mb.m EXCEPT !.applied = Append(@, mb.v)], LAMBDA got :
    With(ListConcat(got, ma.history, ma.prompt), LAMBDA history :
    With(Nested(ma, mb.v, history.id), LAMBDA nested :
    join(history.m, nested))))))

bind(m, ma, f) ==
    With(Apply(m, f, ma.prompt), LAMBDA mb :
    IF Halted(mb.m) THEN Result(mb.m, NoValue)
    ELSE
    With([mb.m EXCEPT !.applied = Append(@, mb.v)], LAMBDA got :
    With(ListConcat(got, ma.history, ma.prompt), LAMBDA history :
    With(Nested(ma, mb.v, history.id), LAMBDA nested :
    join(history.m, nested)))))

\* sha256 of "{template}_{meta_level}": equal exactly when the text is
_hash_prompt(prompt) == <<prompt.template, "_", prompt.meta_level>>

_monadic_prompts_equal(mp1, mp2) ==
    /\ _hash_prompt(mp1.prompt) = _hash_prompt(mp2.prompt)
    /\ Abs(mp1.quality.value - mp2.quality.value) < 100
    /\ mp1.meta_level = mp2.meta_level

verify_left_identity(m, a, f) ==
    With(unit(m, a), LAMBDA ua :
    IF Halted(ua.m) THEN Result(ua.m, NoValue)
    ELSE
    With(bind(ua.m, ua.v, f), LAMBDA left_side :
    IF Halted(left_side.m) THEN Result(left_side.m, NoValue)
    ELSE
    With(Apply(left_side.m, f, a), LAMBDA right_side :
    IF Halted(right_side.m) THEN Result(right_side.m, NoValue)
    ELSE
    Result(right_side.m, _monadic_prompts_equal(left_side.v, right_side.v)))))

verify_right_identity(m, ma) ==
    With(bind(m, ma, UnitFn), LAMBDA left_side :
    IF Halted(left_side.m) THEN Result(left_side.m, NoValue)
    ELSE
    With(ma, LAMBDA right_side :
    Result(left_side.m, _monadic_prompts_equal(left_side.v, right_side))))

verify_associativity(m, ma, f, g) ==
    With(bind(m, ma, f), LAMBDA inner :
    IF Halted(inner.m) THEN Result(inner.m, NoValue)
    ELSE
    With(bind(inner.m, inner.v, g), LAMBDA left_side :
    IF Halted(left_side.m) THEN Result(left_side.m, NoValue)
    ELSE
    With(bind(left_side.m, ma, kleisli_compose(f, g)), LAMBDA right_side :
    IF Halted(right_side.m) THEN Result(right_side.m, NoValue)
    ELSE
    Result(right_side.m, _monadic_prompts_equal(left_side.v, right_side.v)))))

----------------------------------------------------------------------------
(* The state machine *)

TaskVariables == [task |-> "find the maximum"]

\* The prompts handed to unit: a fresh one, and one of meta level 1 whose
\* context records an earlier quality of 0.9
Prompts ==
    {Prompt(<<"Solve: ", Placeholder>>, TaskVariables, [test |-> TRUE], 0),
     Prompt(<<"Step-by-step solution for: ", Placeholder>>, TaskVariables,
            [test |-> TRUE, quality |-> 9000], 1)}

\* Every run of an operation in which the collaborator answers each call:
\* the responses are supplied one by one, as the operation asks for them.
Runs(Run(_)) ==
    LET RECURSIVE Supply(_)
        Supply(rs) ==
            With(Run(rs), LAMBDA r :
            IF ~r.m.starved THEN {r}
            ELSE IF Len(rs) >= MaxScript THEN {}
            ELSE UNION {Supply(Append(rs, x)) : x \in Responses})
    IN  Supply(<<>>)

NoFn == [kind |-> "none"]

\* The functions handed to bind: a function of the test suite (it returns a
\* value of meta level 0) and a direct wrapper (meta level 1)
BindFns == {RewriteFn("Enhanced"), WrapFn}

Did(op, arg, f, r, result) ==
    [op |-> op, arg |-> arg, f |-> f,
     status |-> IF r.m.raised = NoError THEN "ok" ELSE "raise",
     error |-> r.m.raised, calls |-> r.m.calls, applied |-> r.m.applied,
     joins |-> r.m.joins, result |-> result]

\* The operation returns a MonadPrompt, which the caller keeps, or raises
Returned(op, arg, f, r) ==
    IF r.m.raised = NoError
    THEN /\ store' = Append(store, r.v)
         /\ lists' = r.m.lists
         /\ origin' = Append(origin, [op |-> op, arg |-> arg, f |-> f,
                                       ncalls |-> Len(r.m.calls)])
         /\ last' = Did(op, arg, f, r, Len(store) + 1)
    ELSE /\ UNCHANGED <<store, lists, origin>>
         /\ last' = Did(op, arg, f, r, 0)

\* A law verification returns a verdict, or raises; its temporaries are dropped
Verified(op, arg, f, g, r) ==
    /\ UNCHANGED <<store, lists, origin>>
    /\ last' = [op |-> op, arg |-> arg, f |-> f, g |-> g,
                status |-> IF r.m.raised = NoError THEN "ok" ELSE "raise",
                error |-> r.m.raised, ncalls |-> Len(r.m.calls),
                verdict |-> IF r.m.raised = NoError THEN r.v ELSE FALSE]

Init ==
    /\ store = <<>>
    /\ lists = <<>>
    /\ origin = <<>>
    /\ last = Did("init", 0, NoFn, Result(Machine(<<>>, <<>>), NoValue), 0)

Unit(bound) ==
    /\ Len(store) < bound
    /\ \E p \in Prompts :
         \E r \in Runs(LAMBDA rs : unit(Machine(rs, lists), p)) :
            Returned("unit", p, NoFn, r)

Bind(bound) ==
    /\ Len(store) < bound
    /\ \E i \in DOMAIN store, f \in BindFns :
         \E r \in Runs(LAMBDA rs : bind(Machine(rs, lists), store[i], f)) :
            Returned("bind", i, f, r)

Join(bound) ==
    /\ Len(store) < bound
    /\ \E i \in DOMAIN store :
         \E r \in Runs(LAMBDA rs : join(Machine(rs, lists), store[i])) :
            Returned("join", i, NoFn, r)

\* A verification changes nothing that a later one reads (its values are
\* temporaries), so a run verifies one law on the values drawn, as the law
\* tests do
LawTested == last.op \in {"verify_left_identity", "verify_right_identity",
                          "verify_associativity"}

VerifyLeftIdentity ==
    /\ ~LawTested
    /\ \E a \in Prompts, f \in MonadicFns :
       \E r \in Runs(LAMBDA rs : verify_left_identity(Machine(rs, lists), a, f)) :
          Verified("verify_left_identity", a, f, NoFn, r)

VerifyRightIdentity ==
    /\ ~LawTested
    /\ \E i \in DOMAIN store :
       \E r \in Runs(LAMBDA rs : verify_right_identity(Machine(rs, lists), store[i])) :
          Verified("verify_right_identity", i, NoFn, NoFn, r)

VerifyAssociativity ==
    /\ ~LawTested
    /\ \E i \in DOMAIN store, f \in MonadicFns :
       \E g \in MonadicFns \ {f} :
       \E r \in Runs(LAMBDA rs : verify_associativity(Machine(rs, lists), store[i], f, g)) :
          Verified("verify_associativity", i, f, g, r)

\* The chain operations
Next == Unit(MaxStore) \/ Bind(MaxStore) \/ Join(MaxStore)

Spec == Init /\ [][Next]_vars

\* The law verification procedures, on prompts and on values made by unit
NextLaws ==
    \/ Unit(MaxLawStore)
    \/ VerifyLeftIdentity
    \/ VerifyRightIdentity
    \/ VerifyAssociativity

SpecLaws == Init /\ [][NextLaws]_vars

----------------------------------------------------------------------------
(* quality.py called directly: each function applied once to a drawn input *)

\* Outputs by their features: the empty output, the mock's output, and answers
\* of 211 and of 2500 characters with every combination of the cues the
\* heuristics look for
OutputFeatures ==
    {OutEmpty, OutBasic, OutPadded} \cup
    {[name |-> "Answer", len |-> n, striplen |-> n, error_kw |-> ek,
      paragraphs |-> pa, bullets |-> bu, avg_sentence_len |-> av,
      explanatory |-> ex, example |-> eg, edge_case |-> ec,
      complexity |-> cx, optimize |-> op, inefficient |-> ie,
      contains |-> kws] :
        n \in {211, 2500}, ek \in BOOLEAN, pa \in BOOLEAN, bu \in BOOLEAN,
        av \in {4, 15}, ex \in BOOLEAN, eg \in BOOLEAN, ec \in BOOLEAN,
        cx \in BOOLEAN, op \in BOOLEAN, ie \in BOOLEAN,
        kws \in {{}, {"find", "solve"}, OutRich.contains}}

\* Quality values around the thresholds 0.5 and 0.80
QualityValues == {0, 4999, 5000, 5001, 7999, 8000, 9000, 10000}

MetaLevels == {0, 1, 2}

\* The content of a history list: empty, or ending with a prompt with or
\* without a recorded quality
Histories ==
    LET plain == Prompt(<<"Solve: ", Placeholder>>, TaskVariables, [test |-> TRUE], 0)
        scored == Prompt(<<"Step-by-step solution for: ", Placeholder>>, TaskVariables,
                         [test |-> TRUE, quality |-> 9000], 1)
    IN  {<<>>, <<plain>>, <<scored>>, <<plain, scored>>, <<scored, plain>>}

\* Every result of extract_improvement, a dictionary without a strategy and
\* dictionaries with a strategy that integrate_improvement does not know
Improvements ==
    {extract_improvement(MonadPrompt(p, QualityScore(q, EmptyDict), ml, 0), h) :
        p \in Prompts, q \in {5000, 9000}, ml \in {0, 1}, h \in Histories}
    \cup {EmptyDict, [strategy |-> "add_examples"], [add_structure |-> TRUE]}

Input(fn, args) == [op |-> "input", fn |-> fn, args |-> args]

Applied(fn, args, result) == [op |-> fn, fn |-> fn, args |-> args, result |-> result]

InitQuality ==
    /\ store = <<>>
    /\ lists = <<>>
    /\ origin = <<>>
    /\ last \in
         {Input("assess_quality", [output |-> o, prompt |-> p]) :
             o \in OutputFeatures, p \in Prompts}
         \cup
         {Input("extract_improvement",
                [monad_prompt |-> MonadPrompt(p, QualityScore(q, EmptyDict), ml, 0),
                 history |-> h]) :
             p \in Prompts, q \in QualityValues, ml \in MetaLevels, h \in Histories}
         \cup
         {Input("integrate_improvement", [prompt |-> p, improvement |-> i]) :
             p \in Prompts, i \in Improvements}

AssessQuality ==
    /\ last.op = "input" /\ last.fn = "assess_quality"
    /\ last' = Applied(last.fn, last.args,
                       assess_quality(last.args.output, last.args.prompt))
    /\ UNCHANGED <<store, lists, origin>>

ExtractImprovement ==
    /\ last.op = "input" /\ last.fn = "extract_improvement"
    /\ last' = Applied(last.fn, last.args,
                       extract_improvement(last.args.monad_prompt, last.args.history))
    /\ UNCHANGED <<store, lists, origin>>

IntegrateImprovement ==
    /\ last.op = "input" /\ last.fn = "integrate_improvement"
    /\ last' = Applied(last.fn, last.args,
                       integrate_improvement(last.args.prompt, last.args.improvement))
    /\ UNCHANGED <<store, lists, origin>>

NextQuality == AssessQuality \/ ExtractImprovement \/ IntegrateImprovement

SpecQuality == InitQuality /\ [][NextQuality]_vars

----------------------------------------------------------------------------
(* Chains of unit and bind on prompts without a recorded quality, with a   *)
(* collaborator that may return the poorest output, next to assess_quality *)
(* applied to every drawn output                                           *)

\* The prompts whose context has no 'quality' key
PlainPrompts == {p \in Prompts : "quality" \notin DOMAIN p.context}

\* The collaborator returns, with any of the outputs
PlainResponses == {Return(o) : o \in Outputs \cup {OutPadded}}

\* The functions built from unit
UnitFns == {UnitFn, RewriteFn("Enhanced")}

\* Every run of an operation in which the collaborator answers each call
\* with one of the responses rs_set
RunsOver(rs_set, Run(_)) ==
    LET RECURSIVE Supply(_)
        Supply(rs) ==
            With(Run(rs), LAMBDA r :
            IF ~r.m.starved THEN {r}
            ELSE IF Len(rs) >= MaxScript THEN {}
            ELSE UNION {Supply(Append(rs, x)) : x \in rs_set})
    IN  Supply(<<>>)

InitPlain ==
    \/ Init
    \/ /\ InitQuality
       /\ last.fn = "assess_quality"

UnitPlain ==
    /\ last.op # "input"
    /\ Len(store) < MaxStore
    /\ \E p \in PlainPrompts :
         \E r \in RunsOver(PlainResponses, LAMBDA rs : unit(Machine(rs, lists), p)) :
            Returned("unit", p, NoFn, r)

BindPlain ==
    /\ Len(store) < MaxStore
    /\ \E i \in DOMAIN store, f \in UnitFns :
         \E r \in RunsOver(PlainResponses, LAMBDA rs : bind(Machine(rs, lists), store[i], f)) :
            Returned("bind", i, f, r)

NextPlain == UnitPlain \/ BindPlain \/ AssessQuality

SpecPlain == InitPlain /\ [][NextPlain]_vars

----------------------------------------------------------------------------
(* tests/test_comonad_laws.py: the context store                           *)
(*                                                                         *)
(* A content is an integer or a nested context store.  The entries of a    *)
(* store are a list object of the machine (lists), so that a copy and an   *)
(* alias differ; positions count from 0 as in the source.                  *)

IntV(n) == [cls |-> "int", value |-> n]

ContextEntry(content, timestamp, focus_weight, metadata) ==
    [content |-> content, timestamp |-> timestamp, focus_weight |-> focus_weight,
     metadata |-> metadata]

ContextStore(entries, focus_index) ==
    [cls |-> "ContextStore", entries |-> entries, focus_index |-> focus_index]

RaiseError(m, error) == Result([m EXCEPT !.raised = error], NoValue)

\* list.append(item): the list object grows in place
ListAppend(m, list, item) == [m EXCEPT !.lists[list] = Append(@, item)]

\* list[i]: a negative position counts from the end
GetItem(m, list, i) ==
    LET n == Len(m.lists[list])
        k == IF i < 0 THEN i + n ELSE i
    IN  IF 0 <= k /\ k < n
        THEN Result(m, m.lists[list][k + 1])
        ELSE RaiseError(m, "IndexError")

\* ContextStore.pure(value): one entry, in focus
pure(m, value) ==
    With(NewList(m, <<ContextEntry(value, 0, 1, EmptyDict)>>), LAMBDA entries :
    Result(entries.m, ContextStore(entries.id, 0)))

\* Faulty variant of from_list: the focus is taken as given
from_list_unclamped(m, values, focus) ==
    With(NewList(m, [i \in DOMAIN values |->
                        ContextEntry(values[i], i - 1, 1, EmptyDict)]), LAMBDA entries :
    Result(entries.m, ContextStore(entries.id, focus)))

from_list(m, values, focus) ==
    With(NewList(m, [i \in DOMAIN values |->
                        ContextEntry(values[i], i - 1, 1, EmptyDict)]), LAMBDA entries :
    Result(entries.m,
           ContextStore(entries.id,
                        IF Len(values) > 0 THEN Min2(focus, Len(values) - 1) ELSE 0)))

\* Faulty variant of extract: the first entry, whatever the focus
extract_first(m, self) ==
    IF m.lists[self.entries] = <<>>
    THEN RaiseError(m, "ValueError")
    ELSE Result(m, m.lists[self.entries][1].content)

\* Faulty variant of extract: an empty store yields a default, not an error
extract_or_default(m, self) ==
    IF m.lists[self.entries] = <<>>
    THEN Result(m, IntV(0))
    ELSE With(GetItem(m, self.entries, self.focus_index), LAMBDA entry :
         IF Halted(entry.m) THEN entry
         ELSE Result(entry.m, entry.v.content))

extract(m, self) ==
    IF m.lists[self.entries] = <<>>
    THEN RaiseError(m, "ValueError")
    ELSE With(GetItem(m, self.entries, self.focus_index), LAMBDA entry :
         IF Halted(entry.m) THEN entry
         ELSE Result(entry.m, entry.v.content))

RECURSIVE duplicate_loop(_, _, _, _, _)
\* for i in range(n): one view of the store from each position
duplicate_loop(m, self, i, n, new_entries) ==
    IF i >= n THEN m
    ELSE
    With(NewList(m, m.lists[self.entries]), LAMBDA copy :
    With(ContextStore(copy.id, i), LAMBDA shifted_store :
    With(GetItem(copy.m, self.entries, i), LAMBDA entry :
    duplicate_loop(ListAppend(entry.m, new_entries,
                              ContextEntry(shifted_store, entry.v.timestamp,
                                           entry.v.focus_weight, EmptyDict)),
                   self, i + 1, n, new_entries))))

\* Faulty variant of duplicate: the focus of the result is the first position
duplicate_resets_focus(m, self) ==
    With(NewList(m, <<>>), LAMBDA new_entries :
    With(duplicate_loop(new_entries.m, self, 0, Len(m.lists[self.entries]),
                        new_entries.id), LAMBDA done :
    Result(done, ContextStore(new_entries.id, 0))))

\* Faulty variant of duplicate: the views are appended to the entries of the
\* store itself
duplicate_in_place(m, self) ==
    With(duplicate_loop(m, self, 0, Len(m.lists[self.entries]), self.entries),
         LAMBDA done :
    Result(done, ContextStore(self.entries, self.focus_index)))

duplicate(m, self) ==
    With(NewList(m, <<>>), LAMBDA new_entries :
    With(duplicate_loop(new_entries.m, self, 0, Len(m.lists[self.entries]),
                        new_entries.id), LAMBDA done :
    Result(done, ContextStore(new_entries.id, self.focus_index))))

\* The context functions W(A) -> B of the tests, and the functions the
\* tests build from them
ExtractFn == [kind |-> "extract"]          \* lambda w: w.extract()
DuplicateFn == [kind |-> "duplicate"]      \* lambda inner: inner.duplicate()
Times2Fn == [kind |-> "times2"]            \* lambda w: w.extract() * 2
Plus1Fn == [kind |-> "plus1"]              \* lambda w: w.extract() + 1
SumFn == [kind |-> "sum"]                  \* lambda w: sum(e.content for e in w.entries)
LenFn == [kind |-> "len"]                  \* lambda w: len(w.entries)
SquareFn == [kind |-> "square"]            \* lambda w: w.extract() ** 2
Times2Plus1Fn == [kind |-> "times2plus1"]  \* lambda w: w.extract() * 2 + 1

\* The functions on contents handed to fmap: lambda x: x, lambda x: x + 1,
\* lambda x: x * 2
IdFn == [kind |-> "id"]
AddOneFn == [kind |-> "add1"]
DoubleFn == [kind |-> "double"]

content_functions == {IdFn, AddOneFn, DoubleFn}

\* lambda w: f(w.extract()), as fmap builds it
OnExtract(f) == [kind |-> "on_extract", f |-> f]

\* lambda w: f(w.extend(g))
AfterExtend(f, g) == [kind |-> "after_extend", f |-> f, g |-> g]

context_functions == {Times2Fn, Plus1Fn, SumFn, LenFn, SquareFn}

\* The arithmetic of a context function on the extracted integer
IntOp(kind, x) ==
    CASE kind = "times2" -> x * 2
      [] kind = "plus1" -> x + 1
      [] kind = "square" -> x * x
      [] kind = "times2plus1" -> x * 2 + 1

RECURSIVE SumContents(_)
SumContents(entries) ==
    IF entries = <<>> THEN 0
    ELSE entries[1].content.value + SumContents(Tail(entries))

RECURSIVE Call(_, _, _), extend(_, _, _), extend_loop(_, _, _, _, _, _)

\* f(w)
Call(m, f, w) ==
    CASE f.kind = "extract" ->
            IF w.cls = "ContextStore" THEN extract(m, w)
            ELSE RaiseError(m, "AttributeError")
      [] f.kind = "duplicate" ->
            IF w.cls = "ContextStore" THEN duplicate(m, w)
            ELSE RaiseError(m, "AttributeError")
      [] f.kind \in {"times2", "plus1", "square", "times2plus1"} ->
            With(extract(m, w), LAMBDA x :
            IF Halted(x.m) THEN x
            ELSE IF x.v.cls # "int" THEN RaiseError(x.m, "TypeError")
            ELSE Result(x.m, IntV(IntOp(f.kind, x.v.value))))
      [] f.kind = "sum" ->
            IF \E i \in DOMAIN m.lists[w.entries] :
                  m.lists[w.entries][i].content.cls # "int"
            THEN RaiseError(m, "TypeError")
            ELSE Result(m, IntV(SumContents(m.lists[w.entries])))
      [] f.kind = "len" -> Result(m, IntV(Len(m.lists[w.entries])))
      [] f.kind = "id" -> Result(m, w)
      [] f.kind \in {"add1", "double"} ->
            IF w.cls # "int" THEN RaiseError(m, "TypeError")
            ELSE Result(m, IntV(IF f.kind = "add1" THEN w.value + 1 ELSE w.value * 2))
      [] f.kind = "on_extract" ->
            With(extract(m, w), LAMBDA x :
            IF Halted(x.m) THEN x
            ELSE Call(x.m, f.f, x.v))
      [] f.kind = "after_extend" ->
            With(extend(m, w, f.g), LAMBDA x :
            IF Halted(x.m) THEN x
            ELSE Call(x.m, f.f, x.v))

\* Faulty variant of extend_loop: f sees the store from its own focus at
\* every position
extend_loop_unshifted(m, self, f, i, n, new_entries) ==
    IF i >= n THEN m
    ELSE
    With(NewList(m, m.lists[self.entries]), LAMBDA copy :
    With(ContextStore(copy.id, self.focus_index), LAMBDA shifted :
    With(Call(copy.m, f, shifted), LAMBDA result :
    IF Halted(result.m) THEN result.m
    ELSE
    With(GetItem(result.m, self.entries, i), LAMBDA entry :
    extend_loop(ListAppend(entry.m, new_entries,
                           ContextEntry(result.v, entry.v.timestamp,
                                        entry.v.focus_weight, EmptyDict)),
                self, f, i + 1, n, new_entries)))))

\* for i in range(n): f applied to the view from each position
extend_loop(m, self, f, i, n, new_entries) ==
    IF i >= n THEN m
    ELSE
    With(NewList(m, m.lists[self.entries]), LAMBDA copy :
    With(ContextStore(copy.id, i), LAMBDA shifted :
    With(Call(copy.m, f, shifted), LAMBDA result :
    IF Halted(result.m) THEN result.m
    ELSE
    With(GetItem(result.m, self.entries, i), LAMBDA entry :
    extend_loop(ListAppend(entry.m, new_entries,
                           ContextEntry(result.v, entry.v.timestamp,
                                        entry.v.focus_weight, EmptyDict)),
                self, f, i + 1, n, new_entries)))))

\* Faulty variant of extend: the focus of the result is the first position
extend_resets_focus(m, self, f) ==
    With(NewList(m, <<>>), LAMBDA new_entries :
    With(extend_loop(new_entries.m, self, f, 0, Len(m.lists[self.entries]),
                     new_entries.id), LAMBDA done :
    IF Halted(done) THEN Result(done, NoValue)
    ELSE Result(done, ContextStore(new_entries.id, 0))))

extend(m, self, f) ==
    With(NewList(m, <<>>), LAMBDA new_entries :
    With(extend_loop(new_entries.m, self, f, 0, Len(m.lists[self.entries]),
                     new_entries.id), LAMBDA done :
    IF Halted(done) THEN Result(done, NoValue)
    ELSE Result(done, ContextStore(new_entries.id, self.focus_index))))

\* Faulty variant of fmap: f is applied to the view, not to its content
fmap_on_view(m, self, f) == extend(m, self, f)

fmap(m, self, f) == extend(m, self, OnExtract(f))

RECURSIVE ContextStore_eq(_, _, _)
\* ContextStore.__eq__: the numbers of entries, the focus and the contents
ContextStore_eq(ls, self, other) ==
    IF other.cls # "ContextStore" THEN FALSE
    ELSE IF Len(ls[self.entries]) # Len(ls[other.entries]) THEN FALSE
    ELSE IF self.focus_index # other.focus_index THEN FALSE
    ELSE \A i \in DOMAIN ls[self.entries] :
            LET c1 == ls[self.entries][i].content
                c2 == ls[other.entries][i].content
            IN  IF c1.cls = "ContextStore" THEN ContextStore_eq(ls, c1, c2)
                ELSE c1 = c2

RECURSIVE _deep_equal(_, _, _)
\* TestComonadLaws._deep_equal
_deep_equal(ls, a, b) ==
    IF Len(ls[a.entries]) # Len(ls[b.entries]) THEN FALSE
    ELSE IF a.focus_index # b.focus_index THEN FALSE
    ELSE \A i \in DOMAIN ls[a.entries] :
            LET c1 == ls[a.entries][i].content
                c2 == ls[b.entries][i].content
            IN  IF c1.cls = "ContextStore" /\ c2.cls = "ContextStore"
                THEN _deep_equal(ls, c1, c2)
                ELSE IF c1.cls = "ContextStore" THEN ContextStore_eq(ls, c1, c2)
                ELSE IF c2.cls = "ContextStore" THEN FALSE
                ELSE c1 = c2

RECURSIVE Contents(_, _)
\* What a store holds, with the list objects read out: its focus and, entry
\* by entry, the content, the timestamp and the weight
Contents(ls, x) ==
    IF x.cls = "int" THEN x.value
    ELSE [focus_index |-> x.focus_index,
          entries |-> [i \in DOMAIN ls[x.entries] |->
                          [content |-> Contents(ls, ls[x.entries][i].content),
                           timestamp |-> ls[x.entries][i].timestamp,
                           focus_weight |-> ls[x.entries][i].focus_weight]]]

----------------------------------------------------------------------------
(* The context store under its tests: a test draws one store, operations   *)
(* derive further stores from it, and a law test compares two derivations  *)

Elements == {0, 3}

\* st.lists(elements, max_size), the empty list included
ValueLists == UNION {[1..n -> {IntV(e) : e \in Elements}] : n \in 0..MaxLen}

\* The list objects of the caller after an operation whose temporaries are
\* dropped
Kept(r) == SubSeq(r.m.lists, 1, Len(lists))

\* The outcome of a law test: the verdict of the comparison the test makes,
\* and what the two sides hold
Tested(op, arg, f, g, r) ==
    /\ UNCHANGED <<store, origin>>
    /\ lists' = Kept(r)
    /\ last' = [op |-> op, arg |-> arg, f |-> f, g |-> g,
                status |-> IF r.m.raised = NoError THEN "ok" ELSE "raise",
                error |-> r.m.raised,
                verdict |-> IF r.m.raised = NoError THEN r.v.verdict ELSE FALSE,
                left |-> IF r.m.raised = NoError THEN r.v.left ELSE NoValue,
                right |-> IF r.m.raised = NoError THEN r.v.right ELSE NoValue]

\* A test makes its comparison once
ComonadTested ==
    last.op \in {"test_law_1_left_identity", "test_law_2_right_identity",
                 "test_law_3_associativity", "test_extend_extract_identity",
                 "test_extract_extend", "test_extend_composition",
                 "test_comonad_left_identity_law", "test_extend_with_extract_is_identity"}

Compared(m, verdict, left, right) ==
    Result(m, [verdict |-> verdict, left |-> left, right |-> right])

test_law_1_left_identity(m, ctx) ==
    With(duplicate(m, ctx), LAMBDA duplicated :
    With(extract(duplicated.m, duplicated.v), LAMBDA extracted :
    IF Halted(extracted.m) THEN extracted
    ELSE Compared(extracted.m,
                  ContextStore_eq(extracted.m.lists, extracted.v, ctx),
                  Contents(extracted.m.lists, extracted.v),
                  Contents(extracted.m.lists, ctx))))

test_law_2_right_identity(m, ctx) ==
    With(duplicate(m, ctx), LAMBDA duplicated :
    With(fmap(duplicated.m, duplicated.v, ExtractFn), LAMBDA mapped :
    IF Halted(mapped.m) THEN mapped
    ELSE Compared(mapped.m,
                  ContextStore_eq(mapped.m.lists, mapped.v, ctx),
                  Contents(mapped.m.lists, mapped.v),
                  Contents(mapped.m.lists, ctx))))

test_law_3_associativity(m, ctx) ==
    With(duplicate(m, ctx), LAMBDA once :
    With(duplicate(once.m, once.v), LAMBDA left :
    With(duplicate(left.m, ctx), LAMBDA again :
    With(fmap(again.m, again.v, DuplicateFn), LAMBDA right :
    IF Halted(right.m) THEN right
    ELSE Compared(right.m,
                  _deep_equal(right.m.lists, left.v, right.v),
                  Contents(right.m.lists, left.v),
                  Contents(right.m.lists, right.v))))))

test_extend_extract_identity(m, ctx) ==
    With(extend(m, ctx, ExtractFn), LAMBDA result :
    IF Halted(result.m) THEN result
    ELSE Compared(result.m,
                  ContextStore_eq(result.m.lists, result.v, ctx),
                  Contents(result.m.lists, result.v),
                  Contents(result.m.lists, ctx)))

\* extracted == direct, for a context function f
test_extract_extend(m, ctx, f) ==
    With(extend(m, ctx, f), LAMBDA extended :
    IF Halted(extended.m) THEN extended
    ELSE
    With(extract(extended.m, extended.v), LAMBDA extracted :
    IF Halted(extracted.m) THEN extracted
    ELSE
    With(Call(extracted.m, f, ctx), LAMBDA direct :
    IF Halted(direct.m) THEN direct
    ELSE Compared(direct.m, extracted.v = direct.v,
                  extracted.v.value, direct.v.value))))

\* left == right, for context functions f and g
test_extend_composition(m, ctx, f, g) ==
    With(extend(m, ctx, g), LAMBDA inner :
    IF Halted(inner.m) THEN inner
    ELSE
    With(extend(inner.m, inner.v, f), LAMBDA left :
    IF Halted(left.m) THEN left
    ELSE
    With(extend(left.m, ctx, AfterExtend(f, g)), LAMBDA right :
    IF Halted(right.m) THEN right
    ELSE Compared(right.m,
                  ContextStore_eq(right.m.lists, left.v, right.v),
                  Contents(right.m.lists, left.v),
                  Contents(right.m.lists, right.v)))))

InitComonad ==
    /\ store = <<>>
    /\ lists = <<>>
    /\ origin = <<>>
    /\ last = Did("init", 0, NoFn, Result(Machine(<<>>, <<>>), NoValue), 0)

\* context_stores(): ContextStore.from_list(values, focus)
FromList ==
    /\ store = <<>>
    /\ \E values \in ValueLists, focus \in 0..MaxLen :
          Returned("from_list", [values |-> values, focus |-> focus], NoFn,
                   from_list(Machine(<<>>, lists), values, focus))

\* ContextStore.pure(value)
Pure ==
    /\ store = <<>>
    /\ \E e \in Elements :
          Returned("pure", IntV(e), NoFn, pure(Machine(<<>>, lists), IntV(e)))

\* The value at hand: the one drawn or derived last
Latest == Len(store)

HasStore == store # <<>> /\ store[Latest].cls = "ContextStore"

Extract ==
    /\ HasStore
    /\ ~ComonadTested
    /\ LET r == extract(Machine(<<>>, lists), store[Latest])
       IN  /\ last' = [op |-> "extract", arg |-> Latest,
                       status |-> IF r.m.raised = NoError THEN "ok" ELSE "raise",
                       error |-> r.m.raised,
                       result |-> IF r.m.raised = NoError
                                  THEN Contents(r.m.lists, r.v) ELSE NoValue]
           /\ lists' = Kept(r)
           /\ UNCHANGED <<store, origin>>

Duplicate ==
    /\ HasStore
    /\ Len(store) < MaxCtx
    /\ Returned("duplicate", Latest, NoFn,
                duplicate(Machine(<<>>, lists), store[Latest]))

Extend ==
    /\ HasStore
    /\ Len(store) < MaxCtx
    /\ \E f \in context_functions \cup {ExtractFn} :
          Returned("extend", Latest, f, extend(Machine(<<>>, lists), store[Latest], f))

Fmap ==
    /\ HasStore
    /\ Len(store) < MaxCtx
    /\ \E f \in content_functions :
          Returned("fmap", Latest, f, fmap(Machine(<<>>, lists), store[Latest], f))

TestLaw1LeftIdentity ==
    /\ HasStore
    /\ ~ComonadTested
    /\ Tested("test_law_1_left_identity", Latest, NoFn, NoFn,
              test_law_1_left_identity(Machine(<<>>, lists), store[Latest]))

TestLaw2RightIdentity ==
    /\ HasStore
    /\ ~ComonadTested
    /\ Tested("test_law_2_right_identity", Latest, NoFn, NoFn,
              test_law_2_right_identity(Machine(<<>>, lists), store[Latest]))

TestLaw3Associativity ==
    /\ HasStore
    /\ ~ComonadTested
    /\ Tested("test_law_3_associativity", Latest, NoFn, NoFn,
              test_law_3_associativity(Machine(<<>>, lists), store[Latest]))

TestExtendExtractIdentity ==
    /\ HasStore
    /\ ~ComonadTested
    /\ Tested("test_extend_extract_identity", Latest, NoFn, NoFn,
              test_extend_extract_identity(Machine(<<>>, lists), store[Latest]))

TestExtractExtend ==
    /\ HasStore
    /\ ~ComonadTested
    /\ \E f \in context_functions \cup {Times2Plus1Fn} :
          Tested("test_extract_extend", Latest, f, NoFn,
                 test_extract_extend(Machine(<<>>, lists), store[Latest], f))

TestExtendComposition ==
    /\ HasStore
    /\ ~ComonadTested
    /\ \E f \in context_functions, g \in context_functions :
          Tested("test_extend_composition", Latest, f, g,
                 test_extend_composition(Machine(<<>>, lists), store[Latest], f, g))

----------------------------------------------------------------------------
(* The observation comonad (categorical/comonad.py), from its description  *)
(* and its tests: observations are values, never changed once built        *)

Observation(current, context, history, metadata, timestamp) ==
    [cls |-> "Observation", current |-> current, context |-> context,
     history |-> history, metadata |-> metadata, timestamp |-> timestamp]

\* The range of the heuristics observation_quality and completeness
HeuristicScores == {0, 1000}

Comonad_extract(w) == w.current

\* quality and completeness are the values the two heuristics give for w
Comonad_duplicate(w, quality, completeness) ==
    Observation(w,
                DictUpdate(w.context,
                           [meta_observation |-> TRUE,
                            original_context_keys |-> DOMAIN w.context,
                            observation_timestamp |-> w.timestamp,
                            history_depth |-> Len(w.history)]),
                <<w>> \o w.history,
                DictUpdate(w.metadata,
                           [observation_quality |-> quality,
                            completeness |-> completeness]),
                w.timestamp + 1)

\* The comonadic functions of the tests: the current value, the quality of
\* the context, the depth of the history
ObservationFns == {[kind |-> "extract"], [kind |-> "quality"], [kind |-> "history_depth"]}

ObsCall(f, w) ==
    CASE f.kind = "extract" -> Comonad_extract(w)
      [] f.kind = "quality" -> IntV(DictGet(w.context, "quality", 5000))
      [] f.kind = "history_depth" -> IntV(Len(w.history))

Comonad_extend(f, w) ==
    Observation(ObsCall(f, w), w.context, w.history,
                DictUpdate(w.metadata, [extended |-> TRUE]), w.timestamp + 1)

\* observation_strategy(): a current value, a context, an empty history
Observations ==
    {Observation(c, [prompt |-> "Solve: find the maximum", quality |-> q, meta_level |-> ml],
                 <<>>, [iteration |-> 0, source |-> "llm", test |-> TRUE], 0) :
        c \in {IntV(7), IntV(12)}, q \in {3000, 9000}, ml \in {0, 1}}

test_comonad_left_identity_law(m, obs, quality, completeness) ==
    LET duplicated == Comonad_duplicate(obs, quality, completeness)
        extracted == Comonad_extract(duplicated)
    IN  Compared(m, extracted = obs, extracted, obs)

test_extend_with_extract_is_identity(m, obs) ==
    LET result == Comonad_extend([kind |-> "extract"], obs)
    IN  Compared(m, result.current = obs.current, result.current, obs.current)

HasObservation == store # <<>> /\ store[Latest].cls = "Observation"

Observe ==
    /\ store = <<>>
    /\ \E obs \in Observations :
          Returned("observe", obs.current, NoFn, Result(Machine(<<>>, lists), obs))

ObsExtract ==
    /\ HasObservation
    /\ ~ComonadTested
    /\ last' = [op |-> "comonad.extract", arg |-> Latest, status |-> "ok",
                error |-> NoError, result |-> Comonad_extract(store[Latest])]
    /\ UNCHANGED <<store, lists, origin>>

ObsDuplicate ==
    /\ HasObservation
    /\ Len(store) < MaxObs
    /\ \E quality \in HeuristicScores, completeness \in HeuristicScores :
          Returned("comonad.duplicate", Latest, NoFn,
                   Result(Machine(<<>>, lists),
                          Comonad_duplicate(store[Latest], quality, completeness)))

ObsExtend ==
    /\ HasObservation
    /\ Len(store) < MaxObs
    /\ \E f \in ObservationFns :
          Returned("comonad.extend", Latest, f,
                   Result(Machine(<<>>, lists), Comonad_extend(f, store[Latest])))

TestComonadLeftIdentityLaw ==
    /\ HasObservation
    /\ ~ComonadTested
    /\ \E quality \in HeuristicScores, completeness \in HeuristicScores :
          Tested("test_comonad_left_identity_law", Latest, NoFn, NoFn,
                 test_comonad_left_identity_law(Machine(<<>>, lists), store[Latest],
                                                quality, completeness))

TestExtendWithExtractIsIdentity ==
    /\ HasObservation
    /\ ~ComonadTested
    /\ Tested("test_extend_with_extract_is_identity", Latest, NoFn, NoFn,
              test_extend_with_extract_is_identity(Machine(<<>>, lists), store[Latest]))

NextComonad ==
    \/ FromList
    \/ Pure
    \/ Extract
    \/ Duplicate
    \/ Extend
    \/ Fmap
    \/ TestLaw1LeftIdentity
    \/ TestLaw2RightIdentity
    \/ TestLaw3Associativity
    \/ TestExtendExtractIdentity
    \/ TestExtractExtend
    \/ TestExtendComposition
    \/ Observe
    \/ ObsExtract
    \/ ObsDuplicate
    \/ ObsExtend
    \/ TestComonadLeftIdentityLaw
    \/ TestExtendWithExtractIsIdentity

SpecComonad == InitComonad /\ [][NextComonad]_vars

----------------------------------------------------------------------------
(* The functor Tasks -> Prompts: complexity analysis and strategy          *)
(* selection, and the tests of tests/categorical/test_functor.py on the    *)
(* prompt it returns.  A complexity is an integer number of hundredths.    *)

ComplexityAnalysis(overall) == [cls |-> "ComplexityAnalysis", overall |-> overall]

Strategy(name) == [cls |-> "Strategy", name |-> name]

\* select_strategy: the three-way threshold on the overall complexity
select_strategy(complexity) ==
    IF complexity.overall < 30 THEN Strategy("Direct Execution")
    ELSE IF complexity.overall < 70 THEN Strategy("Multi-Approach Synthesis")
    ELSE Strategy("Autonomous Evolution")

\* functor.map_object(task): the prompt carries the description, the
\* complexity analysis of the task and the strategy selected from it
map_object(task, analysis) ==
    [template |-> <<task.description>>,
     context |-> [complexity |-> analysis, strategy |-> select_strategy(analysis)]]

\* task_strategy(): the descriptions the tests draw
Descriptions ==
    {"Write a function to calculate factorial",
     "Implement binary search",
     "Design a distributed cache system with error handling"}

\* The overall complexities an analysis may report, around both thresholds
Complexities == {0, 10, 29, 30, 31, 50, 69, 70, 71, 100}

\* Faulty variant of test_strategy_selection_integration: the bands include
\* their upper ends
test_strategy_selection_integration_inclusive(prompt) ==
    /\ "strategy" \in DOMAIN prompt.context
    /\ LET strategy == prompt.context.strategy
           complexity == prompt.context.complexity.overall
       IN  IF complexity <= 30 THEN strategy.name = "Direct Execution"
           ELSE IF complexity <= 70 THEN strategy.name = "Multi-Approach Synthesis"
           ELSE strategy.name = "Autonomous Evolution"

\* The assertions of the test: TRUE when all of them pass
test_strategy_selection_integration(prompt) ==
    /\ "strategy" \in DOMAIN prompt.context
    /\ LET strategy == prompt.context.strategy
           complexity == prompt.context.complexity.overall
       IN  IF complexity < 30 THEN strategy.name = "Direct Execution"
           ELSE IF complexity < 70 THEN strategy.name = "Multi-Approach Synthesis"
           ELSE strategy.name = "Autonomous Evolution"

test_complexity_analysis_integration(prompt) ==
    /\ "complexity" \in DOMAIN prompt.context
    /\ prompt.context.complexity.cls = "ComplexityAnalysis"
    /\ 0 <= prompt.context.complexity.overall
    /\ prompt.context.complexity.overall <= 100

InitFunctor ==
    /\ store = <<>>
    /\ lists = <<>>
    /\ origin = <<>>
    /\ last \in {[op |-> "task", task |-> [description |-> d], analysis |-> ComplexityAnalysis(c)] :
                    d \in Descriptions, c \in Complexities}

MapObject ==
    /\ last.op = "task"
    /\ last' = [op |-> "map_object", task |-> last.task, analysis |-> last.analysis,
                prompt |-> map_object(last.task, last.analysis)]
    /\ UNCHANGED <<store, lists, origin>>

TestStrategySelectionIntegration ==
    /\ last.op = "map_object"
    /\ last' = [op |-> "test_strategy_selection_integration", task |-> last.task,
                analysis |-> last.analysis, prompt |-> last.prompt,
                verdict |-> test_strategy_selection_integration(last.prompt)]
    /\ UNCHANGED <<store, lists, origin>>

TestComplexityAnalysisIntegration ==
    /\ last.op = "map_object"
    /\ last' = [op |-> "test_complexity_analysis_integration", task |-> last.task,
                analysis |-> last.analysis, prompt |-> last.prompt,
                verdict |-> test_complexity_analysis_integration(last.prompt)]
    /\ UNCHANGED <<store, lists, origin>>

NextFunctor ==
    \/ MapObject
    \/ TestStrategySelectionIntegration
    \/ TestComplexityAnalysisIntegration

SpecFunctor == InitFunctor /\ [][NextFunctor]_vars

----------------------------------------------------------------------------
(* tests/test_natural_transformation_laws.py: strategy-tagged prompts, the *)
(* functors Task -> Prompt and the natural transformations between them    *)
(*                                                                         *)
(* Text.  A string is a sequence of pieces: a run of whitespace, or a      *)
(* stretch of text that neither starts nor ends with whitespace and whose  *)
(* inner whitespace is single spaces.  A piece carries its number of       *)
(* characters and its case.  A strategy is the name of its Enum member.    *)
(* A quality factor is an integer number of hundredths (1.25 is 125), a    *)
(* product of two factors a number of ten-thousandths.                     *)

Ws(n) == [kind |-> "ws", text |-> " ", len |-> n, case |-> "orig"]

Lit(text, len) == [kind |-> "lit", text |-> text, len |-> len, case |-> "orig"]

\* The separator of make_cot_to_tot, as it occurs in a text
LetsThink == Lit("Let's think", 11)

\* str.upper()
str_upper(s) ==
    [i \in DOMAIN s |-> IF s[i].kind = "lit" THEN [s[i] EXCEPT !.case = "upper"] ELSE s[i]]

\* str.lower()
str_lower(s) ==
    [i \in DOMAIN s |-> IF s[i].kind = "lit" THEN [s[i] EXCEPT !.case = "lower"] ELSE s[i]]

RECURSIVE str_lstrip(_)
str_lstrip(s) ==
    IF s # <<>> /\ Head(s).kind = "ws" THEN str_lstrip(Tail(s)) ELSE s

RECURSIVE str_rstrip(_)
str_rstrip(s) ==
    IF s # <<>> /\ s[Len(s)].kind = "ws" THEN str_rstrip(SubSeq(s, 1, Len(s) - 1)) ELSE s

\* str.strip()
str_strip(s) == str_rstrip(str_lstrip(s))

RECURSIVE str_split_first(_, _)
\* s.split(sep)[0]: the text before the first occurrence of sep, all of s
\* when sep does not occur; the comparison is case-sensitive
str_split_first(s, sep) ==
    IF s = <<>> \/ Head(s) = sep THEN <<>>
    ELSE <<Head(s)>> \o str_split_first(Tail(s), sep)

RECURSIVE SingleSpaced(_)
\* ' '.join(s.split()) on a stripped s: every run of whitespace becomes one space
SingleSpaced(s) ==
    IF s = <<>> THEN <<>>
    ELSE IF Head(s).kind = "ws" THEN <<Ws(1)>> \o SingleSpaced(str_lstrip(s))
    ELSE <<Head(s)>> \o SingleSpaced(Tail(s))

\* normalize(s): ' '.join(s.lower().split())
normalize(s) == SingleSpaced(str_strip(str_lower(s)))

RECURSIVE str_len(_)
\* len(s)
str_len(s) == IF s = <<>> THEN 0 ELSE Head(s).len + str_len(Tail(s))

Strategies ==
    {"ZERO_SHOT", "FEW_SHOT", "CHAIN_OF_THOUGHT", "TREE_OF_THOUGHT", "META_PROMPTING",
     "SELF_CONSISTENCY", "REACT"}

\* class Prompt of the test module: a prompt with its strategy annotation
StrategyPrompt(content, strategy, metadata) ==
    [content |-> content, strategy |-> strategy, metadata |-> metadata]

\* Prompt._semantic_hash(): the hash of the normalised content, taken here as
\* the normalised content itself
_semantic_hash(self) == normalize(self.content)

\* Prompt.__eq__
StrategyPrompt_eq(self, other) ==
    /\ self.strategy = other.strategy
    /\ _semantic_hash(self) = _semantic_hash(other)

Task(description, complexity, domain) ==
    [description |-> description, complexity |-> complexity, domain |-> domain]

\* The literal texts of the templates
Examples ==
    <<Lit("Example 1: Input: [example input 1] Output: [example output 1] Example 2: Input: [example input 2] Output: [example output 2] Example 3: Input: [example input 3] Output: [example output 3]", 188)>>

StepByStep ==
    <<LetsThink, Ws(1),
      Lit("through this step by step: 1. First, I'll analyze the problem 2. Then, I'll identify the key components 3. Next, I'll work through the solution 4. Finally, I'll verify the result", 178)>>

StepByStepFromExamples ==
    <<LetsThink, Ws(1),
      Lit("through this step by step: 1. Looking at the examples above, I notice the pattern 2. The key transformation is... 3. Applying this to the current task... 4. Therefore, the answer is...", 184)>>

Branches ==
    <<Lit("Let's explore multiple reasoning paths: Branch A: [First approach] - Step A1: ... - Step A2: ... - Evaluate: [score] Branch B: [Alternative approach] - Step B1: ... - Step B2: ... - Evaluate: [score] Select best branch and continue...", 234)>>

MetaAnalysis ==
    <<Lit("Meta-analysis: 1. What type of problem is this? 2. What strategy would be most effective? 3. What are the key constraints? Strategy Selection: Based on the analysis, I'll use [selected strategy] because [reasoning]. Execution: [Apply selected strategy]", 252)>>

ZeroShotFunctor_apply(task) ==
    StrategyPrompt(task.description, "ZERO_SHOT", [task_complexity |-> task.complexity])

FewShotFunctor_apply(task) ==
    StrategyPrompt(Examples \o <<Ws(2), Lit("Now,", 4), Ws(1)>> \o task.description,
                   "FEW_SHOT",
                   [num_examples |-> 3, task_complexity |-> task.complexity])

ChainOfThoughtFunctor_apply(task) ==
    StrategyPrompt(task.description \o <<Ws(2)>> \o StepByStep,
                   "CHAIN_OF_THOUGHT",
                   [reasoning_steps |-> 4, task_complexity |-> task.complexity])

TreeOfThoughtFunctor_apply(task) ==
    StrategyPrompt(task.description \o <<Ws(2)>> \o Branches,
                   "TREE_OF_THOUGHT",
                   [num_branches |-> 2, task_complexity |-> task.complexity])

MetaPromptingFunctor_apply(task) ==
    StrategyPrompt(<<Lit("Task:", 5), Ws(1)>> \o task.description \o <<Ws(2)>> \o MetaAnalysis,
                   "META_PROMPTING",
                   [adaptive |-> TRUE, task_complexity |-> task.complexity])

\* The functor registry
FUNCTORS ==
    [strategy \in {"ZERO_SHOT", "FEW_SHOT", "CHAIN_OF_THOUGHT", "TREE_OF_THOUGHT",
                   "META_PROMPTING"} |->
        CASE strategy = "ZERO_SHOT" -> [cls |-> "ZeroShotFunctor"]
          [] strategy = "FEW_SHOT" -> [cls |-> "FewShotFunctor"]
          [] strategy = "CHAIN_OF_THOUGHT" -> [cls |-> "ChainOfThoughtFunctor"]
          [] strategy = "TREE_OF_THOUGHT" -> [cls |-> "TreeOfThoughtFunctor"]
          [] strategy = "META_PROMPTING" -> [cls |-> "MetaPromptingFunctor"]]

\* functor.apply(task), by the class of the functor
PromptFunctor_apply(functor, task) ==
    CASE functor.cls = "ZeroShotFunctor" -> ZeroShotFunctor_apply(task)
      [] functor.cls = "FewShotFunctor" -> FewShotFunctor_apply(task)
      [] functor.cls = "ChainOfThoughtFunctor" -> ChainOfThoughtFunctor_apply(task)
      [] functor.cls = "TreeOfThoughtFunctor" -> TreeOfThoughtFunctor_apply(task)
      [] functor.cls = "MetaPromptingFunctor" -> MetaPromptingFunctor_apply(task)

NaturalTransformation(source, target, transform_fn, quality_factor) ==
    [source |-> source, target |-> target, transform_fn |-> transform_fn,
     quality_factor |-> quality_factor]

\* transform of make_zs_to_cot
zs_to_cot_transform(prompt) ==
    StrategyPrompt(prompt.content \o <<Ws(2)>> \o StepByStep,
                   "CHAIN_OF_THOUGHT",
                   DictUpdate(prompt.metadata, [transformed_from |-> "zero-shot"]))

\* transform of make_zs_to_fs
zs_to_fs_transform(prompt) ==
    StrategyPrompt(Examples \o <<Ws(2), Lit("Now,", 4), Ws(1)>> \o prompt.content,
                   "FEW_SHOT",
                   DictUpdate(prompt.metadata,
                              [num_examples |-> 3, transformed_from |-> "zero-shot"]))

\* transform of make_cot_to_tot: the base task is what precedes "Let's think"
cot_to_tot_transform(prompt) ==
    LET base_task == str_strip(str_split_first(prompt.content, LetsThink))
    IN  StrategyPrompt(base_task \o <<Ws(2)>> \o Branches,
                       "TREE_OF_THOUGHT",
                       DictUpdate(prompt.metadata,
                                  [num_branches |-> 2,
                                   transformed_from |-> "chain-of-thought"]))

\* Faulty variant of the transform of make_fs_to_cot: the tag is left as it was
fs_to_cot_transform_keeps_tag(prompt) ==
    StrategyPrompt(prompt.content \o <<Ws(2)>> \o StepByStepFromExamples,
                   prompt.strategy,
                   DictUpdate(prompt.metadata, [transformed_from |-> "few-shot"]))

\* transform of make_fs_to_cot
fs_to_cot_transform(prompt) ==
    StrategyPrompt(prompt.content \o <<Ws(2)>> \o StepByStepFromExamples,
                   "CHAIN_OF_THOUGHT",
                   DictUpdate(prompt.metadata, [transformed_from |-> "few-shot"]))

\* The functions a transformation may carry
TransformFn(name) == [kind |-> name]

IdentityFn == TransformFn("lambda p: p")

\* self.transform_fn(prompt)
CallTransform(fn, prompt) ==
    CASE fn = TransformFn("zs_to_cot") -> zs_to_cot_transform(prompt)
      [] fn = TransformFn("zs_to_fs") -> zs_to_fs_transform(prompt)
      [] fn = TransformFn("cot_to_tot") -> cot_to_tot_transform(prompt)
      [] fn = TransformFn("fs_to_cot") -> fs_to_cot_transform(prompt)
      [] fn = IdentityFn -> prompt

make_zs_to_cot ==
    NaturalTransformation("ZERO_SHOT", "CHAIN_OF_THOUGHT", TransformFn("zs_to_cot"), 125)

make_zs_to_fs ==
    NaturalTransformation("ZERO_SHOT", "FEW_SHOT", TransformFn("zs_to_fs"), 115)

\* Faulty variant of make_cot_to_tot: a quality factor of 2.05
make_cot_to_tot_factor_205 ==
    NaturalTransformation("CHAIN_OF_THOUGHT", "TREE_OF_THOUGHT", TransformFn("cot_to_tot"), 205)

make_cot_to_tot ==
    NaturalTransformation("CHAIN_OF_THOUGHT", "TREE_OF_THOUGHT", TransformFn("cot_to_tot"), 105)

make_fs_to_cot ==
    NaturalTransformation("FEW_SHOT", "CHAIN_OF_THOUGHT", TransformFn("fs_to_cot"), 110)

\* The transformation registry, keyed by (source, target)
TRANSFORMATIONS ==
    (<<"ZERO_SHOT", "CHAIN_OF_THOUGHT">> :> make_zs_to_cot)
    @@ (<<"ZERO_SHOT", "FEW_SHOT">> :> make_zs_to_fs)
    @@ (<<"CHAIN_OF_THOUGHT", "TREE_OF_THOUGHT">> :> make_cot_to_tot)
    @@ (<<"FEW_SHOT", "CHAIN_OF_THOUGHT">> :> make_fs_to_cot)

\* Faulty variant of NaturalTransformation.apply: the strategy of the prompt
\* is not compared with the source
NaturalTransformation_apply_unchecked(m, self, prompt) ==
    Result([m EXCEPT !.applied = Append(@, [fn |-> self.transform_fn, prompt |-> prompt])],
           CallTransform(self.transform_fn, prompt))

\* NaturalTransformation.apply, and __call__ which forwards to it; the call
\* of transform_fn is recorded in applied
NaturalTransformation_apply(m, self, prompt) ==
    IF prompt.strategy # self.source
    THEN RaiseError(m, "ValueError")
    ELSE Result([m EXCEPT !.applied = Append(@, [fn |-> self.transform_fn, prompt |-> prompt])],
                CallTransform(self.transform_fn, prompt))

\* _semantically_equivalent(p1, p2): same strategy, and normalised contents
\* whose lengths differ by less than 0.3 times the longer.  For a length
\* that is a multiple of 10 the float product is the exact integer, and
\* otherwise it is no integer, so the comparison is this one on integers.
_semantically_equivalent(p1, p2) ==
    IF p1.strategy # p2.strategy THEN FALSE
    ELSE LET n1 == str_len(normalize(p1.content))
             n2 == str_len(normalize(p2.content))
         IN  10 * Abs(n1 - n2) < 3 * Max2(n1, n2)

\* The task morphisms of task_morphisms()
MorphismFn(name) == [kind |-> name]

task_morphisms ==
    {MorphismFn("upper"), MorphismFn("please"), MorphismFn("high"), MorphismFn("math"),
     MorphismFn("important")}

\* f(t)
CallMorphism(f, t) ==
    CASE f = MorphismFn("upper") -> Task(str_upper(t.description), t.complexity, t.domain)
      [] f = MorphismFn("please") ->
            Task(<<Lit("Please", 6), Ws(1)>> \o t.description, t.complexity, t.domain)
      [] f = MorphismFn("high") -> Task(t.description, "high", t.domain)
      [] f = MorphismFn("math") -> Task(t.description, t.complexity, "math")
      [] f = MorphismFn("important") ->
            Task(t.description \o <<Ws(1), Lit("(important)", 11)>>, t.complexity, t.domain)

\* The body the three naturality tests share: path1 = alpha(F(f(task))) is
\* compared with G(f(task))
naturality_test(m, F, G, alpha, task, f) ==
    With(PromptFunctor_apply(F, task), LAMBDA F_A :
    With(PromptFunctor_apply(F, CallMorphism(f, task)), LAMBDA F_B :
    With(NaturalTransformation_apply(m, alpha, F_B), LAMBDA path1 :
    IF Halted(path1.m) THEN path1
    ELSE With(NaturalTransformation_apply(path1.m, alpha, F_A), LAMBDA G_A :
         IF Halted(G_A.m) THEN G_A
         ELSE With(PromptFunctor_apply(G, CallMorphism(f, task)), LAMBDA G_B :
              Compared(G_A.m, _semantically_equivalent(path1.v, G_B),
                       path1.v, G_B))))))

test_zs_to_cot_naturality(m, task, f) ==
    naturality_test(m, FUNCTORS["ZERO_SHOT"], FUNCTORS["CHAIN_OF_THOUGHT"],
                    TRANSFORMATIONS[<<"ZERO_SHOT", "CHAIN_OF_THOUGHT">>], task, f)

test_zs_to_fs_naturality(m, task, f) ==
    naturality_test(m, FUNCTORS["ZERO_SHOT"], FUNCTORS["FEW_SHOT"],
                    TRANSFORMATIONS[<<"ZERO_SHOT", "FEW_SHOT">>], task, f)

test_cot_to_tot_naturality(m, task, f) ==
    naturality_test(m, FUNCTORS["CHAIN_OF_THOUGHT"], FUNCTORS["TREE_OF_THOUGHT"],
                    TRANSFORMATIONS[<<"CHAIN_OF_THOUGHT", "TREE_OF_THOUGHT">>], task, f)

\* alpha.quality_factor * beta.quality_factor, in ten-thousandths
composed_factor(alpha, beta) == alpha.quality_factor * beta.quality_factor

\* test_composition_quality_factors: abs(composed_factor - 1.3125) < 0.01
test_composition_quality_factors ==
    LET alpha == TRANSFORMATIONS[<<"ZERO_SHOT", "CHAIN_OF_THOUGHT">>]
        beta == TRANSFORMATIONS[<<"CHAIN_OF_THOUGHT", "TREE_OF_THOUGHT">>]
    IN  Abs(composed_factor(alpha, beta) - 13125) < 100

\* test_quality_bounds: 0.5 <= alpha.quality_factor <= 2.0 for every entry
test_quality_bounds ==
    \A key \in DOMAIN TRANSFORMATIONS :
        /\ 50 <= TRANSFORMATIONS[key].quality_factor
        /\ TRANSFORMATIONS[key].quality_factor <= 200

\* The identity transformation the test builds for a strategy
identity(strategy) == NaturalTransformation(strategy, strategy, IdentityFn, 100)

\* The body of the loop of test_identity_transformation
test_identity_transformation(m, strategy) ==
    With(PromptFunctor_apply(FUNCTORS[strategy], Task(<<Lit("Test task", 9)>>, "medium", "general")),
         LAMBDA prompt :
    With(NaturalTransformation_apply(m, identity(strategy), prompt), LAMBDA result :
    IF Halted(result.m) THEN result
    ELSE Compared(result.m, StrategyPrompt_eq(result.v, prompt), result.v, prompt)))

\* tasks(): descriptions of 5 to 100 characters, among them one that begins
\* with the words make_cot_to_tot splits on, one that ends with them, and one
\* with whitespace at both ends
TaskDescriptions ==
    {d \in {<<Lit("Solve the puzzle", 16)>>,
            <<LetsThink, Ws(1),
              Lit("about whether merge sort or quick sort is faster on nearly sorted inputs of a given size", 88)>>,
            <<Lit("Stop.", 5), Ws(1), LetsThink>>,
            <<Ws(2), Lit("Sort", 4), Ws(1)>>} :
        5 <= str_len(d) /\ str_len(d) <= 100}

Tasks == {Task(d, c, "general") : d \in TaskDescriptions, c \in {"low", "medium", "high"}}

\* The transformations a pipeline may apply: the registered ones and the
\* identities of test_identity_transformation
PipelineTransformations ==
    {TRANSFORMATIONS[key] : key \in DOMAIN TRANSFORMATIONS}
    \cup {identity(s) : s \in {"ZERO_SHOT", "CHAIN_OF_THOUGHT"}}

InitNat ==
    /\ store = <<>>
    /\ lists = <<>>
    /\ origin = <<>>
    /\ last = Did("init", 0, NoFn, Result(Machine(<<>>, <<>>), NoValue), 0)

\* prompt = FUNCTORS[strategy].apply(task)
ApplyFunctor ==
    /\ store = <<>>
    /\ last.op = "init"
    /\ \E strategy \in DOMAIN FUNCTORS, task \in Tasks :
          Returned("functor_apply", task, FUNCTORS[strategy],
                   Result(Machine(<<>>, lists),
                          PromptFunctor_apply(FUNCTORS[strategy], task)))

\* The ValueError of a mismatch leaves the pipeline: nothing is applied after it
Stopped == last.op = "apply" /\ last.status = "raise"

\* prompt = alpha(prompt)
ApplyTransformation ==
    /\ store # <<>>
    /\ Len(store) < MaxPipeline
    /\ ~Stopped
    /\ \E alpha \in PipelineTransformations :
          Returned("apply", Latest, alpha,
                   NaturalTransformation_apply(Machine(<<>>, lists), alpha, store[Latest]))

TestZsToCotNaturality ==
    /\ store = <<>>
    /\ last.op = "init"
    /\ \E task \in Tasks, f \in task_morphisms :
          Tested("test_zs_to_cot_naturality", task, f, NoFn,
                 test_zs_to_cot_naturality(Machine(<<>>, lists), task, f))

TestZsToFsNaturality ==
    /\ store = <<>>
    /\ last.op = "init"
    /\ \E task \in Tasks, f \in task_morphisms :
          Tested("test_zs_to_fs_naturality", task, f, NoFn,
                 test_zs_to_fs_naturality(Machine(<<>>, lists), task, f))

TestCotToTotNaturality ==
    /\ store = <<>>
    /\ last.op = "init"
    /\ \E task \in Tasks, f \in task_morphisms :
          Tested("test_cot_to_tot_naturality", task, f, NoFn,
                 test_cot_to_tot_naturality(Machine(<<>>, lists), task, f))

TestIdentityTransformation ==
    /\ store = <<>>
    /\ last.op = "init"
    /\ \E strategy \in {"ZERO_SHOT", "CHAIN_OF_THOUGHT"} :
          Tested("test_identity_transformation", strategy, NoFn, NoFn,
                 test_identity_transformation(Machine(<<>>, lists), strategy))

TestCompositionQualityFactors ==
    /\ store = <<>>
    /\ last.op = "init"
    /\ last' = [op |-> "test_composition_quality_factors", status |-> "ok",
                verdict |-> test_composition_quality_factors]
    /\ UNCHANGED <<store, lists, origin>>

TestQualityBounds ==
    /\ store = <<>>
    /\ last.op = "init"
    /\ last' = [op |-> "test_quality_bounds", status |-> "ok",
                verdict |-> test_quality_bounds]
    /\ UNCHANGED <<store, lists, origin>>

NextNat ==
    \/ ApplyFunctor
    \/ ApplyTransformation
    \/ TestZsToCotNaturality
    \/ TestZsToFsNaturality
    \/ TestCotToTotNaturality
    \/ TestIdentityTransformation
    \/ TestCompositionQualityFactors
    \/ TestQualityBounds

SpecNat == InitNat /\ [][NextNat]_vars

----------------------------------------------------------------------------
(* Reading the state *)

\* The content of the history of store[i]
Hist(i) == lists[store[i].history]

IsPrefix(s, t) == Len(s) <= Len(t) /\ \A k \in DOMAIN s : s[k] = t[k]

\* The value store[i] was made from: the argument of the bind or join
Parent(i) == origin[i].arg

RECURSIVE BindsTo(_)
\* The number of binds on the way from unit to store[i]
BindsTo(i) ==
    IF origin[i].op = "unit" THEN 0
    ELSE BindsTo(Parent(i)) + (IF origin[i].op = "bind" THEN 1 ELSE 0)

RECURSIVE Ancestors(_)
\* The earlier values of the chain of store[i]
Ancestors(i) ==
    IF origin[i].op = "unit" THEN {}
    ELSE {Parent(i)} \cup Ancestors(Parent(i))

\* The value the last operation returned
Returnee == store[last.result]

----------------------------------------------------------------------------
(* The monad laws *)

\* C1 (left identity): whenever verify_left_identity(a, f) returns, it
\* returns True: bind(unit(a), f) and f(a) are equal under
\* _monadic_prompts_equal.
C1_LeftIdentity ==
    (last.op = "verify_left_identity" /\ last.status = "ok") => last.verdict

\* C2 (right identity): whenever verify_right_identity(m) returns, it returns
\* True: bind(m, unit) and m are equal under _monadic_prompts_equal.
C2_RightIdentity ==
    (last.op = "verify_right_identity" /\ last.status = "ok") => last.verdict

\* C3 (associativity): whenever verify_associativity(m, f, g) returns, it
\* returns True: bind(bind(m, f), g) and bind(m, lambda x: bind(f(x), g)) are
\* equal under _monadic_prompts_equal.
C3_Associativity ==
    (last.op = "verify_associativity" /\ last.status = "ok") => last.verdict

----------------------------------------------------------------------------
(* The chain *)

\* C4 (meta_level counts binds): unit returns meta_level 0, bind returns the
\* meta_level of its argument plus one whatever f returned, join returns the
\* meta_level of its argument; so every value has the number of binds behind
\* it as its meta_level, and no value has a smaller one than an earlier value
\* of its chain.
C4_MetaLevelCountsBinds ==
    \A i \in DOMAIN store :
       /\ origin[i].op = "unit" => store[i].meta_level = 0
       /\ origin[i].op = "bind" =>
             store[i].meta_level = store[Parent(i)].meta_level + 1
       /\ origin[i].op = "join" =>
             store[i].meta_level = store[Parent(i)].meta_level
       /\ store[i].meta_level = BindsTo(i)
       /\ \A j \in Ancestors(i) : store[j].meta_level <= store[i].meta_level

\* A value two binds away from unit, the second with an f that returned a
\* value of meta level 1
C4_Witness ==
    \E i \in DOMAIN store :
       /\ origin[i].op = "bind" /\ origin[i].f = WrapFn
       /\ origin[Parent(i)].op = "bind"
       /\ store[i].meta_level = 2

\* C5 (history is append-only): unit returns an empty history, bind returns
\* the history of its argument followed by the argument's prompt, join the
\* history of its argument; so the history of a value has one entry per bind
\* behind it, and the history of every earlier value of its chain is a prefix
\* of it.
C5_HistoryAppendOnly ==
    \A i \in DOMAIN store :
       /\ origin[i].op = "unit" => Hist(i) = <<>>
       /\ origin[i].op = "bind" =>
             Hist(i) = Append(Hist(Parent(i)), store[Parent(i)].prompt)
       /\ origin[i].op = "join" => Hist(i) = Hist(Parent(i))
       /\ Len(Hist(i)) = BindsTo(i)
       /\ \A j \in Ancestors(i) : IsPrefix(Hist(j), Hist(i))

\* A history of two different prompts
C5_Witness ==
    \E i \in DOMAIN store :
       /\ origin[i].op = "bind" /\ origin[Parent(i)].op = "bind"
       /\ Len(Hist(i)) = 2 /\ Hist(i)[1] # Hist(i)[2]

\* C6 (the value handed to join): inside bind(ma, f) with mb = f(ma.prompt),
\* join is handed a value whose prompt is mb.prompt and whose quality value
\* is the minimum of ma.quality.value and mb.quality.value: above neither,
\* and not their average when they differ.
C6_NestedQualityIsMin ==
    (last.op = "bind" /\ Len(last.joins) >= 1) =>
        LET ma == store[last.arg]
            mb == last.applied[Len(last.applied)]
            nested == last.joins[Len(last.joins)]
        IN  /\ nested.prompt = mb.prompt
            /\ nested.quality.value = Min2(ma.quality.value, mb.quality.value)
            /\ nested.quality.value <= ma.quality.value
            /\ nested.quality.value <= mb.quality.value
            /\ ma.quality.value # mb.quality.value =>
                  2 * nested.quality.value # ma.quality.value + mb.quality.value

\* A bind whose f returned a higher quality than its argument has
C6_Witness ==
    /\ last.op = "bind" /\ Len(last.joins) >= 1
    /\ store[last.arg].quality.value < last.applied[Len(last.applied)].quality.value

\* C7 as stated (the quality bind returns): the value returned by bind(ma, f)
\* has the quality value min(ma.quality.value, f(ma.prompt).quality.value).
C7_ReturnedQualityIsTensor ==
    (last.op = "bind" /\ last.status = "ok") =>
        Returnee.quality.value =
            Min2(store[last.arg].quality.value,
                 last.applied[Len(last.applied)].quality.value)

\* C7 as amended: the value returned by bind(ma, f) has the quality join
\* assesses anew, from the output of its own completion call and the enhanced
\* prompt it returns.
C7_ReturnedQualityIsReassessed ==
    (last.op = "bind" /\ last.status = "ok") =>
        /\ last.calls[Len(last.calls)].response.kind = "return"
        /\ Returnee.quality =
              assess_quality(last.calls[Len(last.calls)].response.output,
                             Returnee.prompt)

\* A bind that returned a quality above both of its inputs
C7_Witness ==
    /\ last.op = "bind" /\ last.status = "ok"
    /\ Returnee.quality.value > store[last.arg].quality.value
    /\ Returnee.quality.value > last.applied[Len(last.applied)].quality.value

\* C8 (arguments are left alone): no operation changes a value built
\* earlier: its prompt, quality, meta_level and history list object, and
\* the content of that history, are what they were.
C8_ArgumentsUnmodified ==
    [][\A i \in DOMAIN store :
          /\ i \in DOMAIN store'
          /\ store'[i] = store[i]
          /\ store[i].history \in DOMAIN lists'
          /\ lists'[store[i].history] = lists[store[i].history]]_vars

\* A value with a bind and a join run on it, and a bind on its successor
C8_Witness ==
    \E i, j, k \in DOMAIN store :
       /\ origin[j].op = "bind" /\ Parent(j) = i
       /\ origin[k].op \in {"bind", "join"} /\ Parent(k) \in {i, j} /\ k # j

\* C9 (one completion call per unit and per join): a unit call makes exactly
\* one call to complete, on the rendered prompt, and a join call exactly one,
\* on the rendered enhanced prompt; a value is returned only after that call
\* has returned.
C9_OneCompletionPerCall ==
    /\ last.op = "unit" =>
          /\ Len(last.calls) = 1
          /\ last.calls[1].text = render(last.arg)
    /\ last.op = "join" =>
          /\ Len(last.calls) = 1
          /\ last.calls[1].text =
                render(integrate_improvement(
                          store[last.arg].prompt,
                          extract_improvement(store[last.arg], Hist(last.arg))))
    /\ (last.op \in {"unit", "join"} /\ last.status = "ok") =>
          /\ last.calls[1].response.kind = "return"
          /\ last.calls[1].text = render(Returnee.prompt)

\* A join called directly that returned
C9_Witness ==
    /\ last.op = "join" /\ last.status = "ok"
    /\ Len(last.calls) = 1

\* C10 (a failing collaborator): in unit, join and bind, a call to complete
\* that raises is the last call of the operation; the operation raises that
\* same error and returns no value, and an operation raises only so.  The
\* values built earlier stay as they were.
C10_FailureSurfaces ==
    [][(last'.op \in {"unit", "join", "bind"}) =>
          /\ \A k \in DOMAIN last'.calls :
                last'.calls[k].response.kind = "raise" =>
                   /\ k = Len(last'.calls)
                   /\ last'.status = "raise"
                   /\ last'.error = last'.calls[k].response.error
          /\ last'.status = "raise" =>
                /\ Len(last'.calls) >= 1
                /\ last'.calls[Len(last'.calls)].response.kind = "raise"
                /\ last'.result = 0
                /\ store' = store]_vars

\* A bind whose join raised, after f had returned
C10_Witness ==
    /\ last.op = "bind" /\ last.status = "raise"
    /\ Len(last.calls) = 2 /\ Len(last.joins) = 1
    /\ last.error = "TimeoutError"

----------------------------------------------------------------------------
(* quality.py *)

\* The subsequence relation on templates: s occurs in t, contiguous and whole
Occurs(s, t) ==
    \E k \in 0..(Len(t) - Len(s)) : \A j \in DOMAIN s : t[k + j] = s[j]

C13_WeightedComponents ==
    last.op = "assess_quality" =>
        LET c == last.result.components
        IN  /\ DOMAIN c = {"correctness", "clarity", "completeness", "efficiency"}
            /\ \A k \in DOMAIN c : 0 <= c[k] /\ c[k] <= 1000
            /\ last.result.value = 4 * c.correctness + 3 * c.clarity
                                   + 2 * c.completeness + 1 * c.efficiency
            /\ 0 <= last.result.value /\ last.result.value <= 10000
            /\ last.result = assess_quality(last.args.output, last.args.prompt)

\* An assessment whose sub-scores differ, one of them at its cap
C13_Witness ==
    /\ last.op = "assess_quality"
    /\ last.result.components.clarity = 1000
    /\ last.result.components.correctness < 1000
    /\ last.result.components.efficiency < last.result.components.clarity

----------------------------------------------------------------------------
(* The comonad laws and the frame of the comonad operations *)

\* The entries of the store the last operation was about
ArgEntries == lists[store[last.arg].entries]

\* ContextStore[int]: every content is an integer
ArgHoldsIntegers == \A k \in DOMAIN ArgEntries : ArgEntries[k].content.cls = "int"

\* C14 (comonad left identity): for a non-empty context store ctx,
\* extract(duplicate(ctx)) equals ctx and holds the same entries at the same
\* focus; for an observation w, extract(duplicate(w)) is w.
C14_ExtractAfterDuplicate ==
    /\ (last.op = "test_law_1_left_identity" /\ ArgEntries # <<>>) =>
          /\ last.status = "ok"
          /\ last.verdict
          /\ last.left = last.right
    /\ last.op = "test_comonad_left_identity_law" =>
          /\ last.status = "ok"
          /\ last.verdict
          /\ last.left = store[last.arg]

\* The law has been tested on a store of two entries focused on the second
C14_Witness ==
    /\ last.op = "test_law_1_left_identity"
    /\ last.verdict
    /\ Len(ArgEntries) = 2
    /\ store[last.arg].focus_index = 1
    /\ last.left.focus_index = 1

\* C15 (comonad right identity): for a non-empty context store ctx,
\* duplicate(ctx).fmap(extract) equals ctx: the same content at every
\* position and the same focus.
C15_FmapExtractAfterDuplicate ==
    (last.op = "test_law_2_right_identity" /\ ArgEntries # <<>>) =>
        /\ last.status = "ok"
        /\ last.verdict
        /\ last.left.focus_index = store[last.arg].focus_index
        /\ Len(last.left.entries) = Len(ArgEntries)
        /\ \A k \in DOMAIN ArgEntries :
              last.left.entries[k].content = Contents(lists, ArgEntries[k].content)

\* The law has been tested on a store whose two contents differ
C15_Witness ==
    /\ last.op = "test_law_2_right_identity"
    /\ last.verdict
    /\ Len(ArgEntries) = 2
    /\ ArgEntries[1].content # ArgEntries[2].content
    /\ store[last.arg].focus_index = 1

\* C16 (comonad associativity): for a non-empty context store ctx,
\* duplicate(duplicate(ctx)) and duplicate(ctx).fmap(duplicate) are deeply
\* equal: the same number of entries, the same focus at every level, the
\* same contents three levels deep.
C16_DuplicateAssociative ==
    (last.op = "test_law_3_associativity" /\ ArgEntries # <<>>) =>
        /\ last.status = "ok"
        /\ last.verdict
        /\ last.left = last.right
        /\ Len(last.left.entries) = Len(ArgEntries)
        /\ \A k \in DOMAIN ArgEntries :
              /\ last.left.entries[k].content.focus_index = k - 1
              /\ \A j \in DOMAIN ArgEntries :
                    last.left.entries[k].content.entries[j].content.focus_index = j - 1

\* The law has been tested on a store of two entries focused on the second
C16_Witness ==
    /\ last.op = "test_law_3_associativity"
    /\ last.verdict
    /\ Len(ArgEntries) = 2
    /\ last.left.focus_index = 1
    /\ last.left.entries[2].content.entries[1].content.entries[2].content
          = Contents(lists, ArgEntries[2].content)

\* C17 (extend with extract): for a non-empty context store ctx,
\* ctx.extend(extract) equals ctx, contents and focus; for an observation w,
\* extend(extract, w).current equals w.current.
C17_ExtendExtractIsIdentity ==
    /\ (last.op = "test_extend_extract_identity" /\ ArgEntries # <<>>) =>
          /\ last.status = "ok"
          /\ last.verdict
          /\ last.left = last.right
    /\ last.op = "test_extend_with_extract_is_identity" =>
          /\ last.status = "ok"
          /\ last.verdict
          /\ last.left = store[last.arg].current

\* The identity has been tested on a store of two different contents
\* focused on the second
C17_Witness ==
    /\ last.op = "test_extend_extract_identity"
    /\ last.verdict
    /\ Len(ArgEntries) = 2
    /\ ArgEntries[1].content # ArgEntries[2].content
    /\ last.left.focus_index = 1

\* C18 (extend composes): for a non-empty context store ctx of integers and
\* context functions f and g, ctx.extend(g).extend(f) equals
\* ctx.extend(lambda w: f(w.extend(g))), and ctx.extend(f).extract() equals
\* f(ctx).
C18_ExtendComposes ==
    /\ (last.op = "test_extend_composition" /\ ArgEntries # <<>> /\ ArgHoldsIntegers) =>
          /\ last.status = "ok"
          /\ last.verdict
          /\ last.left = last.right
    /\ (last.op = "test_extract_extend" /\ ArgEntries # <<>> /\ ArgHoldsIntegers) =>
          /\ last.status = "ok"
          /\ last.verdict
          /\ last.left = last.right

\* Extract after extend has been tested with a function that tells the
\* positions of the store apart
C18_Witness ==
    /\ last.op = "test_extract_extend"
    /\ last.f = Times2Plus1Fn
    /\ last.verdict
    /\ Len(ArgEntries) = 2
    /\ store[last.arg].focus_index = 1
    /\ ArgEntries[1].content # ArgEntries[2].content

\* C19 (duplicate and extend leave their source alone): duplicate(w) returns
\* a new observation whose current is w and whose history is w followed by
\* the history of w, one longer; duplicate and extend of a context store
\* return a store with as many entries and the same focus; and every value
\* held before the operation, its entries included, is as it was.
C19_SourceUnchanged ==
    [][ (last'.op \in {"duplicate", "extend", "comonad.duplicate"}
         /\ last'.status = "ok") =>
          LET w == store[last'.arg]
              returned == store'[last'.result]
          IN  /\ \A j \in DOMAIN store :
                    /\ store'[j] = store[j]
                    /\ store[j].cls = "ContextStore" =>
                          Contents(lists', store'[j]) = Contents(lists, store[j])
              /\ last'.op \in {"duplicate", "extend"} =>
                    /\ Len(lists'[returned.entries]) = Len(lists[w.entries])
                    /\ returned.focus_index = w.focus_index
                    /\ returned.entries # w.entries
              /\ last'.op = "comonad.duplicate" =>
                    /\ returned.current = w
                    /\ returned.history = <<w>> \o w.history
                    /\ Len(returned.history) = Len(w.history) + 1
      ]_vars

\* A store of two entries focused on the second has been duplicated
C19_Witness ==
    /\ last.op = "duplicate"
    /\ last.status = "ok"
    /\ Len(ArgEntries) = 2
    /\ store[last.arg].focus_index = 1
    /\ Len(lists[store[last.result].entries]) = 2

\* An observation that was itself a duplicate has been duplicated
C19_ObservationDuplicated ==
    /\ last.op = "comonad.duplicate"
    /\ last.status = "ok"
    /\ Len(store[last.result].history) = 2

\* The observation laws have been tested
C14_ObservationTested == last.op = "test_comonad_left_identity_law" /\ last.verdict

C17_ObservationTested == last.op = "test_extend_with_extract_is_identity" /\ last.verdict

\* C20 (extract): on a context store without entries extract raises an
\* error and returns nothing; on a store with entries it returns the content
\* at focus_index; either way the store and its entries are as they were.
C20_ExtractOrFail ==
    [][ last'.op = "extract" =>
          LET self == store[last'.arg]
              entries == lists[self.entries]
          IN  /\ store' = store
              /\ lists' = lists
              /\ entries = <<>> =>
                    /\ last'.status = "raise"
                    /\ last'.error = "ValueError"
                    /\ last'.result = NoValue
              /\ entries # <<>> =>
                    /\ last'.status = "ok"
                    /\ last'.result =
                          Contents(lists, entries[self.focus_index + 1].content)
      ]_vars

\* extract has failed on a store without entries
C20_Witness ==
    /\ last.op = "extract"
    /\ last.status = "raise"
    /\ ArgEntries = <<>>

----------------------------------------------------------------------------
(* The improvement rules inside a chain *)

\* C25 (the meta_level == 0 rule is dead inside bind): the value bind hands
\* to join has meta_level >= 1 and a history that is not empty, so
\* extract_improvement does not set add_meta_reflection for it, and
\* add_reasoning_steps is not the strategy integrated into the prompt bind
\* returns.
C25_NoMetaReflectionInBind ==
    last.op = "bind" =>
        \A k \in DOMAIN last.joins :
           LET nested == last.joins[k]
           IN  /\ nested.meta_level >= 1
               /\ nested.meta_level = store[last.arg].meta_level + 1
               /\ last.status = "ok" =>
                     LET history == lists[nested.history]
                         improvement == extract_improvement(nested, history)
                     IN  /\ history # <<>>
                         /\ "add_meta_reflection" \notin DOMAIN improvement
                         /\ DictGet(improvement, "strategy", "") # "add_reasoning_steps"
                         /\ Returnee.prompt.context.improvement_strategy
                               # "add_reasoning_steps"

\* A bind on a value of meta level 0 that unit returned, which integrated
\* add_structure
C25_Witness ==
    /\ last.op = "bind" /\ last.status = "ok"
    /\ origin[last.arg].op = "unit"
    /\ store[last.arg].meta_level = 0
    /\ Len(last.joins) = 1
    /\ Returnee.prompt.context.improvement_strategy = "add_structure"

\* Outside bind the rule is live: a join called on a value of meta level 0
\* integrates add_reasoning_steps
C25_RuleLiveInJoin ==
    /\ last.op = "join" /\ last.status = "ok"
    /\ store[last.arg].meta_level = 0
    /\ Returnee.prompt.context.improvement_strategy = "add_reasoning_steps"

\* The first value of the chain of store[i]: the one unit returned
RECURSIVE ChainRoot(_)
ChainRoot(i) == IF origin[i].op = "unit" THEN i ELSE ChainRoot(Parent(i))

\* store[i] was built from unit by binds only
OnlyBinds(i) == \A j \in {i} \cup Ancestors(i) : origin[j].op \in {"unit", "bind"}

\* C27 (two depth counters, one step per bind): the prompt bind returns has
\* the meta_level of the prompt f returned plus one; so after unit(p) and n
\* binds whose f keeps the meta_level of its prompt, prompt.meta_level is
\* p.meta_level + n, meta_level is n, and their difference is p.meta_level.
C27_CountersAdvanceTogether ==
    /\ (last.op = "bind" /\ last.status = "ok") =>
          /\ Len(last.applied) = 1
          /\ Returnee.prompt.meta_level = last.applied[1].prompt.meta_level + 1
          /\ Returnee.meta_level = store[last.arg].meta_level + 1
    /\ \A i \in DOMAIN store :
          OnlyBinds(i) =>
             LET p == origin[ChainRoot(i)].arg
                 n == BindsTo(i)
             IN  /\ store[i].prompt.meta_level = p.meta_level + n
                 /\ store[i].meta_level = n
                 /\ store[i].prompt.meta_level - store[i].meta_level = p.meta_level

\* Two binds after unit on a prompt of meta level 1
C27_Witness ==
    \E i \in DOMAIN store :
       /\ OnlyBinds(i)
       /\ BindsTo(i) = 2
       /\ origin[ChainRoot(i)].arg.meta_level = 1
       /\ store[i].prompt.meta_level = 3
       /\ store[i].meta_level = 2

\* f is unit applied to a rewritten prompt: one completion call
UnitBased(f) == f.kind \in {"unit", "rewrite"}

\* The completion calls f makes when it returns or raises
FnCalls(f) == IF UnitBased(f) THEN 1 ELSE 0

\* The completion calls made by the operations of the chain of store[i]
RECURSIVE CallsTo(_)
CallsTo(i) ==
    origin[i].ncalls + (IF origin[i].op = "unit" THEN 0 ELSE CallsTo(Parent(i)))

\* Every bind on the chain of store[i] was given a unit-based f
UnitBasedChain(i) ==
    /\ OnlyBinds(i)
    /\ \A j \in {i} \cup Ancestors(i) : origin[j].op = "bind" => UnitBased(origin[j].f)

\* C28 (bind is f, then join, and nothing else): bind runs f once and, if f
\* returned, join once on a value built from what f returned; it makes no
\* completion call of its own, and if f raises join is not run.  With a
\* unit-based f a bind that returns has made two calls, the first on the
\* prompt of f and the second on the enhanced prompt, and a chain of unit
\* and n such binds has made 1 + 2n calls.
C28_BindCallsFThenJoin ==
    /\ last.op = "bind" =>
          /\ Len(last.applied) <= 1
          /\ Len(last.joins) = Len(last.applied)
          /\ last.applied = <<>> =>
                /\ last.status = "raise"
                /\ Len(last.calls) = FnCalls(last.f)
          /\ last.applied # <<>> =>
                /\ last.joins[1].prompt = last.applied[1].prompt
                /\ Len(last.calls) = FnCalls(last.f) + 1
          /\ (UnitBased(last.f) /\ last.status = "ok") =>
                /\ Len(last.calls) = 2
                /\ last.calls[1].text = render(last.applied[1].prompt)
                /\ last.calls[1].text = render(Rewrite(last.f.name, store[last.arg].prompt))
                /\ last.calls[2].text = render(Returnee.prompt)
    /\ \A i \in DOMAIN store :
          UnitBasedChain(i) => CallsTo(i) = 1 + 2 * BindsTo(i)

\* A chain of unit and two binds with a unit-based f: five calls
C28_Witness ==
    \E i \in DOMAIN store :
       /\ UnitBasedChain(i)
       /\ BindsTo(i) = 2
       /\ CallsTo(i) = 5
       /\ last.op = "bind" /\ last.result = i

\* A bind whose f raised: one call, no join
C28_FRaised ==
    /\ last.op = "bind" /\ last.status = "raise"
    /\ last.applied = <<>> /\ last.joins = <<>>
    /\ Len(last.calls) = 1

\* C26 (the stagnation rule is dead on plain chains): every score of
\* assess_quality is at least 0.54, the four sub-scores being at least 0.5,
\* 0.5, 0.6 and 0.7; so in a chain of unit and binds with a unit-based f on
\* prompts whose context has no 'quality' key, the value bind hands to join
\* has a quality above the 0.5 the comparison falls back to,
\* quality_stagnant is not set, try_different_approach is not selected, and
\* the strategy bind integrates is add_structure when that quality is below
\* 0.80 and none otherwise.
C26_NoStagnationOnPlainChains ==
    /\ last.op = "assess_quality" =>
          /\ last.result.value >= 5400
          /\ last.result.components.correctness >= 500
          /\ last.result.components.clarity >= 500
          /\ last.result.components.completeness >= 600
          /\ last.result.components.efficiency >= 700
    /\ \A i \in DOMAIN store :
          /\ store[i].quality.value >= 5400
          /\ "quality" \notin DOMAIN store[i].prompt.context
    /\ last.op = "bind" =>
          \A k \in DOMAIN last.joins :
             LET nested == last.joins[k]
             IN  /\ nested.quality.value >= 5400
                 /\ last.status = "ok" =>
                       LET history == lists[nested.history]
                           improvement == extract_improvement(nested, history)
                           strategy == DictGet(improvement, "strategy", "")
                       IN  /\ history # <<>>
                           /\ "quality" \notin DOMAIN history[Len(history)].context
                           /\ "quality_stagnant" \notin DOMAIN improvement
                           /\ strategy \in {"add_structure", ""}
                           /\ strategy = "add_structure" <=> nested.quality.value < 8000
                           /\ Returnee.prompt.context.improvement_strategy = strategy

\* A bind whose f got the poorest output from the collaborator: the value
\* handed to join has a quality below 0.6, and add_structure is integrated
C26_Witness ==
    /\ last.op = "bind" /\ last.status = "ok"
    /\ last.calls[1].response.output = OutPadded
    /\ last.joins[1].quality.value < 6000
    /\ Returnee.prompt.context.improvement_strategy = "add_structure"

\* A bind that integrates no strategy
C26_NoStrategy ==
    /\ last.op = "bind" /\ last.status = "ok"
    /\ Returnee.prompt.context.improvement_strategy = ""

\* assess_quality applied to the poorest output
C26_PoorestAssessed ==
    /\ last.op = "assess_quality"
    /\ last.args.output = OutPadded
    /\ last.result.value < 6000

----------------------------------------------------------------------------
(* The focus of a context store *)

\* The number of entries of store[i]
EntryCount(i) == Len(lists[store[i].entries])

\* C29 (the focus stays in range): a store built by pure, or by from_list
\* from a non-empty list with a focus >= 0, has 0 <= focus_index <
\* len(entries), from_list clamping a focus past the end to the last entry;
\* duplicate, extend and fmap return a store with as many entries and the
\* same focus index as their source; so extract, after any of these, does
\* not index out of range.
C29_FocusInRange ==
    /\ \A i \in DOMAIN store :
          store[i].cls = "ContextStore" =>
             /\ origin[i].op = "pure" =>
                   EntryCount(i) = 1 /\ store[i].focus_index = 0
             /\ (origin[i].op = "from_list" /\ origin[i].arg.values # <<>>) =>
                   /\ EntryCount(i) = Len(origin[i].arg.values)
                   /\ store[i].focus_index =
                         Min2(origin[i].arg.focus, Len(origin[i].arg.values) - 1)
             /\ origin[i].op \in {"duplicate", "extend", "fmap"} =>
                   /\ EntryCount(i) = EntryCount(origin[i].arg)
                   /\ store[i].focus_index = store[origin[i].arg].focus_index
             /\ EntryCount(i) > 0 =>
                   /\ 0 <= store[i].focus_index
                   /\ store[i].focus_index < EntryCount(i)
    /\ last.op \in {"extract", "duplicate", "extend", "fmap"} =>
          last.error # "IndexError"
    /\ (last.op = "extract" /\ ArgEntries # <<>>) => last.status = "ok"

\* extract after fmap on a store of two entries that from_list was asked to
\* focus past its end
C29_Witness ==
    /\ last.op = "extract" /\ last.status = "ok"
    /\ last.arg = 2
    /\ origin[2].op = "fmap"
    /\ origin[1].op = "from_list"
    /\ Len(origin[1].arg.values) = 2
    /\ origin[1].arg.focus = 2
    /\ store[2].focus_index = 1

----------------------------------------------------------------------------
(* Strategy selection *)

\* C24 (strategy selection is a three-way threshold): the prompt the
\* functor returns carries an overall complexity c in [0, 1] and the
\* strategy selected from it: Direct Execution when c < 0.3, Multi-Approach
\* Synthesis when 0.3 <= c < 0.7, Autonomous Evolution when c >= 0.7; every
\* c has exactly one strategy (0.29, 0.30, 0.69, 0.70 give Direct,
\* Multi-Approach, Multi-Approach, Autonomous), and both tests pass.
C24_ThreeWayThreshold ==
    last.op # "task" =>
        LET c == last.prompt.context.complexity.overall
            name == last.prompt.context.strategy.name
        IN  /\ 0 <= c /\ c <= 100
            /\ c = last.analysis.overall
            /\ name \in {"Direct Execution", "Multi-Approach Synthesis",
                         "Autonomous Evolution"}
            /\ name = "Direct Execution" <=> c < 30
            /\ name = "Multi-Approach Synthesis" <=> (30 <= c /\ c < 70)
            /\ name = "Autonomous Evolution" <=> c >= 70
            /\ c = 29 => name = "Direct Execution"
            /\ c = 30 => name = "Multi-Approach Synthesis"
            /\ c = 69 => name = "Multi-Approach Synthesis"
            /\ c = 70 => name = "Autonomous Evolution"
            /\ last.op \in {"test_strategy_selection_integration",
                            "test_complexity_analysis_integration"} => last.verdict

\* The selection test has passed on a prompt of complexity 0.30
C24_Witness ==
    /\ last.op = "test_strategy_selection_integration"
    /\ last.verdict
    /\ last.prompt.context.complexity.overall = 30
    /\ last.prompt.context.strategy.name = "Multi-Approach Synthesis"

\* ... and on a prompt of complexity 0.70
C24_UpperThreshold ==
    /\ last.op = "test_strategy_selection_integration"
    /\ last.verdict
    /\ last.prompt.context.complexity.overall = 70
    /\ last.prompt.context.strategy.name = "Autonomous Evolution"

----------------------------------------------------------------------------
(* Natural transformations *)

\* C21: NaturalTransformation.apply on a prompt whose strategy differs from
\* the source of the transformation raises ValueError and does not call
\* transform_fn; on a prompt whose strategy is the source it calls
\* transform_fn once, on the prompt, and returns what it returned; an
\* identity transformation returns a prompt equal to the one it was given.
C21_ApplyChecksSource ==
    /\ last.op = "apply" =>
         LET alpha == last.f
             prompt == store[last.arg]
         IN  IF prompt.strategy # alpha.source
             THEN /\ last.status = "raise"
                  /\ last.error = "ValueError"
                  /\ last.applied = <<>>
             ELSE /\ last.status = "ok"
                  /\ last.applied = <<[fn |-> alpha.transform_fn, prompt |-> prompt]>>
                  /\ store[last.result] = CallTransform(alpha.transform_fn, prompt)
                  /\ alpha.transform_fn = IdentityFn =>
                        StrategyPrompt_eq(store[last.result], prompt)
    /\ last.op = "test_identity_transformation" => last.status = "ok" /\ last.verdict

\* A registered transformation was applied to a prompt of another strategy
C21_Witness ==
    /\ last.op = "apply"
    /\ last.f \in {TRANSFORMATIONS[key] : key \in DOMAIN TRANSFORMATIONS}
    /\ store[last.arg].strategy # last.f.source
    /\ last.status = "raise"

\* A transformation was applied to a prompt of its source strategy
C21_Transformed ==
    /\ last.op = "apply"
    /\ last.status = "ok"
    /\ last.f.transform_fn # IdentityFn
    /\ store[last.result] # store[last.arg]

\* An identity transformation was applied to a prompt of its strategy
C21_IdentityApplied ==
    /\ last.op = "apply"
    /\ last.status = "ok"
    /\ last.f.transform_fn = IdentityFn

NaturalityTests ==
    {"test_zs_to_cot_naturality", "test_zs_to_fs_naturality", "test_cot_to_tot_naturality"}

\* C22: for the transformations ZS->CoT, ZS->FS and CoT->ToT, every task t
\* and every task morphism f, alpha(F(f(t))) and G(f(t)) carry the same
\* strategy and their normalised contents differ in length by less than 30 %
\* of the longer one.
C22_Naturality ==
    last.op \in NaturalityTests =>
        /\ last.status = "ok"
        /\ last.left.strategy = last.right.strategy
        /\ 10 * Abs(str_len(normalize(last.left.content))
                    - str_len(normalize(last.right.content)))
             < 3 * Max2(str_len(normalize(last.left.content)),
                        str_len(normalize(last.right.content)))
        /\ last.verdict

\* The squares of the two transformations out of zero-shot commute: both
\* paths build the same text
C22_ZeroShotSquaresCommute ==
    last.op \in {"test_zs_to_cot_naturality", "test_zs_to_fs_naturality"} =>
        /\ last.verdict
        /\ last.left.content = last.right.content

\* The square of CoT->ToT commutes whenever the description does not
\* contain the words the transformation splits on
C22_CotToTotWithoutSeparator ==
    (/\ last.op = "test_cot_to_tot_naturality"
     /\ \A i \in DOMAIN CallMorphism(last.f, last.arg).description :
           CallMorphism(last.f, last.arg).description[i] # LetsThink)
    => last.verdict

\* C23: the quality factor of every registered transformation lies in
\* [0.5, 2.0], and the factor of ZS->CoT followed by CoT->ToT is the product
\* of the two factors, 1.25 * 1.05 = 1.3125.
C23_QualityFactors ==
    /\ \A key \in DOMAIN TRANSFORMATIONS :
          /\ 50 <= TRANSFORMATIONS[key].quality_factor
          /\ TRANSFORMATIONS[key].quality_factor <= 200
    /\ composed_factor(TRANSFORMATIONS[<<"ZERO_SHOT", "CHAIN_OF_THOUGHT">>],
                       TRANSFORMATIONS[<<"CHAIN_OF_THOUGHT", "TREE_OF_THOUGHT">>]) = 13125
    /\ last.op \in {"test_quality_bounds", "test_composition_quality_factors"} => last.verdict

C23_Witness ==
    last.op = "test_composition_quality_factors" /\ last.verdict

C23_BoundsTested ==
    last.op = "test_quality_bounds" /\ last.verdict

\* C30: a transformation applied to the prompt a pipeline has reached
\* succeeds exactly when the strategy of that prompt is its source, and the
\* prompt it returns carries its target; a mismatch raises ValueError, adds
\* no prompt, and nothing is applied after it.  Hence ZS->CoT->ToT ends in a
\* tree-of-thought prompt and ZS->FS->CoT in a chain-of-thought prompt.
C30_PipelineStep ==
    /\ (last'.op = "apply" /\ <<store, last>>' # <<store, last>>) =>
          LET alpha == last'.f
              prompt == store[Len(store)]
          IN  IF prompt.strategy = alpha.source
              THEN /\ last'.status = "ok"
                   /\ Len(store') = Len(store) + 1
                   /\ SubSeq(store', 1, Len(store)) = store
                   /\ store'[Len(store')].strategy = alpha.target
              ELSE /\ last'.status = "raise"
                   /\ last'.error = "ValueError"
                   /\ store' = store
    /\ Stopped => store' = store /\ last' = last

C30_SourceMatchesPreviousTarget == [][C30_PipelineStep]_vars

\* The pipeline ZS -> CoT -> ToT of test_vertical_composition has run
C30_Witness ==
    /\ Len(store) = 3
    /\ origin[2].f = TRANSFORMATIONS[<<"ZERO_SHOT", "CHAIN_OF_THOUGHT">>]
    /\ origin[3].f = TRANSFORMATIONS[<<"CHAIN_OF_THOUGHT", "TREE_OF_THOUGHT">>]
    /\ store[1].strategy = "ZERO_SHOT"
    /\ store[3].strategy = "TREE_OF_THOUGHT"

\* The pipeline ZS -> FS -> CoT of test_full_transformation_pipeline has run
C30_FewShotPipeline ==
    /\ Len(store) = 3
    /\ origin[2].f = TRANSFORMATIONS[<<"ZERO_SHOT", "FEW_SHOT">>]
    /\ origin[3].f = TRANSFORMATIONS[<<"FEW_SHOT", "CHAIN_OF_THOUGHT">>]
    /\ store[3].strategy = "CHAIN_OF_THOUGHT"

\* A pipeline was stopped at its second transformation
C30_StoppedAtMismatch ==
    /\ Stopped
    /\ Len(store) = 2
    /\ origin[2].op = "apply"

====
